---- MODULE Spec2Model ----
(***************************************************************************)
(* State-machine model of the MagTag weather station firmware:             *)
(*   - the main task of src/bin/main.rs (one wake cycle ending in deep     *)
(*     sleep), the connection task and the network pump task of            *)
(*     src/network.rs, scheduled by one cooperative executor;              *)
(*   - the fetch of src/weather/api.rs, which the cycle calls, and the     *)
(*     HTTP client http_get of src/weather/http.rs;                        *)
(*   - extract_json_payload of src/weather/mod.rs;                         *)
(*   - the decoding of src/weather/model.rs, graphical_display of          *)
(*     src/display.rs and the draw and text functions of src/graphics.rs   *)
(*     and src/time.rs.                                                    *)
(* Time is counted in whole seconds.                                       *)
(***************************************************************************)
EXTENDS Integers, Sequences, FiniteSets, TLC

(***************************************************************************)
(* Program constants (seconds).                                            *)
(***************************************************************************)
SLEEP_ON_ERROR_SECS == 300
SLEEP_ON_SUCCESS_SECS == 86400
LINK_TIMEOUT == 10
IP_TIMEOUT == 20
RESOLVE_TIMEOUT == 5
CONNECT_TIMEOUT == 5
REQUEST_TIMEOUT == 5
RESPONSE_TIMEOUT == 10
RECONNECT_DELAY == 5

(***************************************************************************)
(* Bounds of the model.                                                    *)
(***************************************************************************)
\* longest raw buffer handed to extract_json_payload
MaxLen == 6
\* most non-empty reads the peer delivers in one receive phase
MaxChunks == 2
\* size of the buffer a read fills (N of api.rs, tmp of http.rs)
BufN == 2
\* seconds a starved main task is followed past its deadline
MaxOverdue == 2
\* weather codes tried: -MaxCode..MaxCode and the ends of i32
MaxCode == 100
\* wind directions tried: -MaxDir..MaxDir and the ends of i32
MaxDir == 365
\* years tried besides the fixed ones: BaseYear..BaseYear+YearSpan
BaseYear == 2023
YearSpan == 2
\* longest component made of EncAlphabet, and largest capacity N tried
MaxEncLen == 2
MaxEncCap == 6
\* largest icon index tried
MaxIcon == 9
\* most days of the well-formed documents a peer sends (besides MAX_DAYS)
MaxDays == 2
\* bytes of capacity tried beyond MinRequest
MaxReqSlack == 12

(***************************************************************************)
(* Bytes.  NUL, CR, LF, '[', '{' are the bytes the code tests for; 'x'     *)
(* stands for every other byte.                                            *)
(***************************************************************************)
NUL == 0
LF == 10
CR == 13
LBRACKET == 91
CHAR_X == 120
LBRACE == 123

Byte == {NUL, LF, CR, LBRACKET, CHAR_X, LBRACE}

\* the bytes a peer sends in the model of the cycle: NUL, and '{' for text
WireByte == {NUL, LBRACE}

RECURSIVE SeqsUpTo(_, _)
SeqsUpTo(S, n) ==
    IF n = 0 THEN {<<>>}
    ELSE LET shorter == SeqsUpTo(S, n - 1)
         IN  shorter \cup {Append(s, b) : s \in {t \in shorter : Len(t) = n - 1}, b \in S}

SetMin(S) == CHOOSE m \in S : \A o \in S : m <= o


(***************************************************************************)
(* extract_json_payload: indices are 0-based as in the source; the slice   *)
(* buf[start..end] aborts the program when start > end.                    *)
(***************************************************************************)
\* buf.windows(4).position(|w| w == b"\r\n\r\n")
HeaderEndPositions(b) ==
    {i \in 0..(Len(b) - 4) :
        /\ b[i + 1] = CR /\ b[i + 2] = LF /\ b[i + 3] = CR /\ b[i + 4] = LF}

\* buf.iter().position(|&b| b == b'{' || b == b'[')
JsonOpenPositions(b) == {i \in 0..(Len(b) - 1) : b[i + 1] \in {LBRACE, LBRACKET}}

\* buf.iter().position(|&b| b == b'\0')
NulPositions(b) == {i \in 0..(Len(b) - 1) : b[i + 1] = NUL}

PayloadStart(b) ==
    IF HeaderEndPositions(b) # {} THEN SetMin(HeaderEndPositions(b)) + 4
    ELSE IF JsonOpenPositions(b) # {} THEN SetMin(JsonOpenPositions(b))
    ELSE 0

PayloadEnd(b) ==
    IF NulPositions(b) # {} THEN SetMin(NulPositions(b)) ELSE Len(b)

NoPayload == [tag |-> "none", bytes |-> <<>>]

extract_json_payload(b) ==
    IF PayloadStart(b) > PayloadEnd(b)
    THEN [tag |-> "panic", bytes |-> <<>>]
    ELSE [tag |-> "slice", bytes |-> SubSeq(b, PayloadStart(b) + 1, PayloadEnd(b))]

(***************************************************************************)
(* graphics.rs: weather_code_to_icon_index and wind_dir_text.  The         *)
(* arguments are i32.                                                      *)
(***************************************************************************)
I32_MIN == -2147483647 - 1
I32_MAX == 2147483647

weather_code_to_icon_index_SnowAsDefault(code) ==
    CASE code = 0 -> 0
      [] code = 1 -> 1
      [] code = 2 -> 2
      [] code = 3 -> 3
      [] code \in {61, 63, 65} -> 4
      [] code \in {51, 53, 55, 80, 81, 82} -> 5
      [] code \in {95, 96, 99} -> 6
      [] code \in {56, 57, 66, 67, 71, 73, 75, 85, 86} -> 7
      [] code \in {45, 48} -> 8
      [] OTHER -> 0

weather_code_to_icon_index(code) ==
    CASE code = 0 -> 0
      [] code = 1 -> 1
      [] code = 2 -> 2
      [] code = 3 -> 3
      [] code \in {61, 63, 65} -> 4
      [] code \in {51, 53, 55, 80, 81, 82} -> 5
      [] code \in {95, 96, 99} -> 6
      [] code \in {56, 57, 66, 67, 71, 73, 75, 77, 85, 86} -> 7
      [] code \in {45, 48} -> 8
      [] OTHER -> 0

\* the range pattern a..b of a match arm: a <= x < b
InRange(x, a, b) == a <= x /\ x < b

wind_dir_text_ExclusiveStart(direction) ==
    CASE InRange(direction, 0, 23) -> "N"
      [] InRange(direction, 23, 68) -> "NE"
      [] InRange(direction, 68, 123) -> "E"
      [] InRange(direction, 123, 158) -> "SE"
      [] InRange(direction, 158, 203) -> "S"
      [] InRange(direction, 203, 248) -> "SW"
      [] InRange(direction, 248, 294) -> "W"
      [] InRange(direction, 294, 338) -> "NW"
      [] OTHER -> "N"

wind_dir_text(direction) ==
    CASE InRange(direction, 0, 22) -> "N"
      [] InRange(direction, 22, 67) -> "NE"
      [] InRange(direction, 67, 122) -> "E"
      [] InRange(direction, 122, 157) -> "SE"
      [] InRange(direction, 157, 202) -> "S"
      [] InRange(direction, 202, 247) -> "SW"
      [] InRange(direction, 247, 293) -> "W"
      [] InRange(direction, 293, 337) -> "NW"
      [] OTHER -> "N"

(***************************************************************************)
(* Text.  A str is a sequence of one-character strings; str::get, the      *)
(* integer parsers of core and the Display of an integer.                  *)
(***************************************************************************)
Digits == <<"0", "1", "2", "3", "4", "5", "6", "7", "8", "9">>

IsDigit(c) == \E i \in 1..10 : Digits[i] = c

DigitVal(c) == (CHOOSE i \in 1..10 : Digits[i] = c) - 1

None == [tag |-> "None"]

Some(v) == [tag |-> "Some", value |-> v]

Ok(v) == [tag |-> "Ok", value |-> v]

Err(e) == [tag |-> "Err", error |-> e]

\* s.get(a..b): None when the range ends past the text
str_get(s, a, b) == IF b <= Len(s) THEN Some(SubSeq(s, a + 1, b)) ELSE None

RECURSIVE DigitsValue(_)
DigitsValue(s) ==
    IF s = <<>> THEN 0
    ELSE 10 * DigitsValue(SubSeq(s, 1, Len(s) - 1)) + DigitVal(s[Len(s)])

AllDigits(s) == s # <<>> /\ \A i \in 1..Len(s) : IsDigit(s[i])

\* str::parse::<i32>: an optional sign, then one digit or more
parse_i32(s) ==
    IF s # <<>> /\ s[1] \in {"+", "-"}
    THEN IF AllDigits(Tail(s))
         THEN Some(IF s[1] = "-" THEN 0 - DigitsValue(Tail(s)) ELSE DigitsValue(Tail(s)))
         ELSE None
    ELSE IF AllDigits(s) THEN Some(DigitsValue(s)) ELSE None

\* str::parse::<u8>: an optional '+', then one digit or more, at most 255
parse_u8(s) ==
    LET digits == IF s # <<>> /\ s[1] = "+" THEN Tail(s) ELSE s
    IN  IF AllDigits(digits) /\ DigitsValue(digits) <= 255
        THEN Some(DigitsValue(digits))
        ELSE None

\* integer division and remainder of Rust: towards zero
RustDiv(a, b) == IF a >= 0 THEN a \div b ELSE 0 - ((0 - a) \div b)

RustRem(a, b) == a - b * RustDiv(a, b)

RECURSIVE NatText(_)
NatText(n) ==
    IF n < 10 THEN <<Digits[n + 1]>>
    ELSE Append(NatText(n \div 10), Digits[(n % 10) + 1])

\* Display of an integer: decimal, no padding, '-' before a negative one
IntText(n) == IF n < 0 THEN <<"-">> \o NatText(0 - n) ELSE NatText(n)

(***************************************************************************)
(* time.rs: ordinal, format_date, get_iso_8601_hh_mm, over the calendar    *)
(* of the time crate (proleptic Gregorian, years -9999..9999).             *)
(***************************************************************************)
MIN_YEAR == -9999
MAX_YEAR == 9999

is_leap_year(y) == y % 4 = 0 /\ (y % 100 # 0 \/ y % 400 = 0)

days_in_month(y, m) ==
    IF m = 2 THEN (IF is_leap_year(y) THEN 29 ELSE 28)
    ELSE IF m \in {4, 6, 9, 11} THEN 30 ELSE 31

RECURSIVE DaysBeforeMonth(_, _)
DaysBeforeMonth(y, m) ==
    IF m = 1 THEN 0 ELSE DaysBeforeMonth(y, m - 1) + days_in_month(y, m - 1)

\* Date::from_calendar_date after Month::try_from
from_calendar_date(y, m, d) ==
    IF /\ MIN_YEAR <= y /\ y <= MAX_YEAR
       /\ 1 <= m /\ m <= 12
       /\ 1 <= d /\ d <= days_in_month(y, m)
    THEN Some([year |-> y, month |-> m, day |-> d])
    ELSE None

\* days from 0001-01-01, a Monday, to the date
DayNumber(date) ==
    LET p == date.year - 1
    IN  365 * p + (p \div 4) - (p \div 100) + (p \div 400)
            + DaysBeforeMonth(date.year, date.month) + (date.day - 1)

WeekdayNames ==
    <<"Monday", "Tuesday", "Wednesday", "Thursday", "Friday", "Saturday", "Sunday">>

\* Date::weekday, as the name format_date prints
weekday(date) == WeekdayNames[(DayNumber(date) % 7) + 1]

MonthNames ==
    <<"January", "February", "March", "April", "May", "June", "July", "August",
      "September", "October", "November", "December">>

ordinal_NoTeens(n) ==
    CASE n % 10 = 1 -> "st"
      [] n % 10 = 2 -> "nd"
      [] n % 10 = 3 -> "rd"
      [] OTHER -> "th"

ordinal(n) ==
    IF n \in 11..13 THEN "th"
    ELSE CASE n % 10 = 1 -> "st"
           [] n % 10 = 2 -> "nd"
           [] n % 10 = 3 -> "rd"
           [] OTHER -> "th"

\* every `?` returns None; the text is "{} {} {}{}, {}"
format_date(iso) ==
    LET ys == str_get(iso, 0, 4)
        ms == str_get(iso, 5, 7)
        ds == str_get(iso, 8, 10)
    IN  IF ys = None THEN None
        ELSE IF parse_i32(ys.value) = None THEN None
        ELSE IF ms = None THEN None
        ELSE IF parse_u8(ms.value) = None THEN None
        ELSE IF ds = None THEN None
        ELSE IF parse_u8(ds.value) = None THEN None
        ELSE LET year == parse_i32(ys.value).value
                 month == parse_u8(ms.value).value
                 day == parse_u8(ds.value).value
                 date == from_calendar_date(year, month, day)
             IN  IF date = None THEN None
                 ELSE Some(<<weekday(date.value), " ", MonthNames[month], " ">>
                           \o IntText(day) \o <<ordinal(day), ",", " ">> \o IntText(year))

get_iso_8601_hh_mm(iso) ==
    IF Len(iso) < 16 \/ iso[11] # "T" THEN None ELSE str_get(iso, 11, 16)

(***************************************************************************)
(* graphics.rs: day_of_week_sakamoto, in i32 arithmetic.                   *)
(***************************************************************************)
SakamotoTable == <<0, 3, 2, 5, 0, 3, 5, 1, 4, 6, 2, 4>>

DowNames == <<"SUN", "MON", "TUE", "WED", "THU", "FRI">>

day_of_week_sakamoto_NoJanFeb(year, month, day) ==
    IF month - 1 \notin 0..11 THEN [tag |-> "panic"]
    ELSE LET y == year
             dow == RustRem(y + RustDiv(y, 4) - RustDiv(y, 100) + RustDiv(y, 400)
                               + SakamotoTable[month] + day, 7)
         IN  [tag |-> "value", value |-> IF dow \in 0..5 THEN DowNames[dow + 1] ELSE "SAT"]

\* t[(month - 1) as usize] aborts when month is not in 1..12
day_of_week_sakamoto(year, month, day) ==
    IF month - 1 \notin 0..11 THEN [tag |-> "panic"]
    ELSE LET y == IF month < 3 THEN year - 1 ELSE year
             dow == RustRem(y + RustDiv(y, 4) - RustDiv(y, 100) + RustDiv(y, 400)
                               + SakamotoTable[month] + day, 7)
         IN  [tag |-> "value", value |-> IF dow \in 0..5 THEN DowNames[dow + 1] ELSE "SAT"]

(***************************************************************************)
(* http.rs, api.rs: QUERY_ENCODE_SET and url_encode_component.  Text is a  *)
(* sequence of bytes here.                                                 *)
(***************************************************************************)
PERCENT == 37

\* CONTROLS of percent_encoding: C0 controls and DEL
CONTROLS == (0..31) \cup {127}

\* CONTROLS and the bytes added one by one: space ! " # $ % & ' ( ) + , / :
\* ; < = > ? @ [ \ ] ^ ` { | } ~
QUERY_ENCODE_SET_NoPercent ==
    CONTROLS \cup {32, 33, 34, 35, 36, 38, 39, 40, 41, 43, 44, 47, 58, 59, 60, 61,
                   62, 63, 64, 91, 92, 93, 94, 96, 123, 124, 125, 126}

QUERY_ENCODE_SET ==
    CONTROLS \cup {32, 33, 34, 35, 36, 37, 38, 39, 40, 41, 43, 44, 47, 58, 59, 60, 61,
                   62, 63, 64, 91, 92, 93, 94, 96, 123, 124, 125, 126}

\* the ASCII code of an uppercase hexadecimal digit
HexDigit(n) == IF n < 10 THEN 48 + n ELSE 55 + n

\* percent_encode_byte
PercentEncodeByte(b) == <<PERCENT, HexDigit(b \div 16), HexDigit(b % 16)>>

\* utf8_percent_encode: a byte is escaped when it is not ASCII or is in the set
RECURSIVE utf8_percent_encode(_, _)
utf8_percent_encode(input, set) ==
    IF input = <<>> THEN <<>>
    ELSE (IF input[1] >= 128 \/ input[1] \in set
          THEN PercentEncodeByte(input[1])
          ELSE <<input[1]>>) \o utf8_percent_encode(Tail(input), set)

\* write! into a String<N> fails when the text does not fit
url_encode_component_Truncating(component, N) ==
    LET text == utf8_percent_encode(component, QUERY_ENCODE_SET)
    IN  [tag |-> "Ok", value |-> SubSeq(text, 1, IF Len(text) > N THEN N ELSE Len(text))]

url_encode_component(component, N) ==
    LET text == utf8_percent_encode(component, QUERY_ENCODE_SET)
    IN  IF Len(text) > N THEN [tag |-> "Err", error |-> "Other"]
        ELSE [tag |-> "Ok", value |-> text]

(***************************************************************************)
(* http.rs: Method::as_str and build_http_request.                         *)
(***************************************************************************)
\* "GET", "HEAD", "POST", "PUT", "DELETE", "PATCH", "CONNECT", "OPTIONS", "TRACE"
as_str ==
    [Get |-> <<71, 69, 84>>,
     Head |-> <<72, 69, 65, 68>>,
     Post |-> <<80, 79, 83, 84>>,
     Put |-> <<80, 85, 84>>,
     Delete |-> <<68, 69, 76, 69, 84, 69>>,
     Patch |-> <<80, 65, 84, 67, 72>>,
     Connect |-> <<67, 79, 78, 78, 69, 67, 84>>,
     Options |-> <<79, 80, 84, 73, 79, 78, 83>>,
     Trace |-> <<84, 82, 65, 67, 69>>]

\* "\r\n"
CRLF == <<13, 10>>

\* write!(req, ..) into a String<N>: the text is appended when it fits
WriteStr(req, text, N) ==
    IF req.tag = "Err" \/ Len(req.value) + Len(text) > N
    THEN [tag |-> "Err", error |-> "HttpRequestFailed"]
    ELSE [tag |-> "Ok", value |-> req.value \o text]

build_http_request_BodyFirst(method, target, host, headers, body, N) ==
    LET line == WriteStr([tag |-> "Ok", value |-> <<>>],
                         as_str[method] \o <<32>> \o target \o <<32, 72, 84, 84, 80, 47, 49, 46, 48>> \o CRLF
                             \o <<72, 111, 115, 116, 58, 32>> \o host \o CRLF, N)
        withBody == IF body = None THEN line ELSE WriteStr(line, CRLF \o body.value, N)
        withHeaders == IF headers = None THEN withBody
                       ELSE WriteStr(withBody, headers.value, N)
    IN  WriteStr(withHeaders, CRLF \o CRLF, N)

\* "{} {} HTTP/1.0\r\nHost: {}\r\n", then the headers, then "\r\n{}" with the
\* body, then "\r\n\r\n"; each write! is followed by `?`
build_http_request(method, target, host, headers, body, N) ==
    LET line == WriteStr([tag |-> "Ok", value |-> <<>>],
                         as_str[method] \o <<32>> \o target \o <<32, 72, 84, 84, 80, 47, 49, 46, 48>> \o CRLF
                             \o <<72, 111, 115, 116, 58, 32>> \o host \o CRLF, N)
        withHeaders == IF headers = None THEN line ELSE WriteStr(line, headers.value, N)
        withBody == IF body = None THEN withHeaders
                    ELSE WriteStr(withHeaders, CRLF \o body.value, N)
    IN  WriteStr(withBody, CRLF \o CRLF, N)

(***************************************************************************)
(* api.rs, config.rs: build_open_meteo_request and the location of the     *)
(* station.                                                                *)
(***************************************************************************)
\* "api.open-meteo.com"
OPEN_METEO_URL ==
    <<97, 112, 105, 46, 111, 112, 101, 110, 45, 109, 101, 116, 101, 111, 46,
    99, 111, 109>>

\* "weather_code,temperature_2m_max,...,wind_direction_10m_dominant"
DAILY_FIELDS ==
    <<119, 101, 97, 116, 104, 101, 114, 95, 99, 111, 100, 101, 44, 116, 101,
      109, 112, 101, 114, 97, 116, 117, 114, 101, 95, 50, 109, 95, 109, 97,
      120, 44, 116, 101, 109, 112, 101, 114, 97, 116, 117, 114, 101, 95, 50,
      109, 95, 109, 105, 110, 44, 115, 117, 110, 114, 105, 115, 101, 44, 115,
      117, 110, 115, 101, 116, 44, 119, 105, 110, 100, 95, 115, 112, 101,
      101, 100, 95, 49, 48, 109, 95, 109, 97, 120, 44, 119, 105, 110, 100,
      95, 103, 117, 115, 116, 115, 95, 49, 48, 109, 95, 109, 97, 120, 44,
      119, 105, 110, 100, 95, 100, 105, 114, 101, 99, 116, 105, 111, 110, 95,
      49, 48, 109, 95, 100, 111, 109, 105, 110, 97, 110, 116>>

\* "39.868", "-104.9719", "America/Denver"
OPENMETEO_LATITUDE == <<51, 57, 46, 56, 54, 56>>

OPENMETEO_LONGITUDE == <<45, 49, 48, 52, 46, 57, 55, 49, 57>>

OPENMETEO_TIMEZONE == <<65, 109, 101, 114, 105, 99, 97, 47, 68, 101, 110,
                        118, 101, 114>>

\* write!(String<N>, "{}", utf8_percent_encode(text, QUERY_ENCODE_SET))
\*     .map_err(|_| AppError::HttpRequestFailed)
EncodeInto(text, N) ==
    LET enc == utf8_percent_encode(text, QUERY_ENCODE_SET)
    IN  IF Len(enc) > N THEN Err("HttpRequestFailed") ELSE Ok(enc)

\* "GET /v1/forecast?latitude={}&longitude={}&daily={}&timezone={} HTTP/1.0\r\n
\* Host: {}\r\nAccept: application/json\r\n\r\n" written into a String<512>
build_open_meteo_request(latitude, longitude, timezone) ==
    LET lat_enc == EncodeInto(latitude, 16)
        long_enc == EncodeInto(longitude, 16)
        tz_enc == EncodeInto(timezone, 96)
    IN  IF lat_enc.tag = "Err" THEN lat_enc
        ELSE IF long_enc.tag = "Err" THEN long_enc
        ELSE IF tz_enc.tag = "Err" THEN tz_enc
        ELSE WriteStr(Ok(<<>>),
                      <<71, 69, 84, 32, 47, 118, 49, 47, 102, 111, 114,
                          101, 99, 97, 115, 116, 63, 108, 97, 116, 105, 116,
                          117, 100, 101, 61>> \o lat_enc.value
                          \o <<38, 108, 111, 110, 103, 105, 116, 117, 100, 101,
                          61>> \o long_enc.value
                          \o <<38, 100, 97, 105, 108, 121, 61>> \o DAILY_FIELDS
                          \o <<38, 116, 105, 109, 101, 122, 111, 110, 101, 61>> \o tz_enc.value
                          \o <<32, 72, 84, 84, 80, 47, 49, 46, 48>> \o CRLF
                          \o <<72, 111, 115, 116, 58, 32>> \o OPEN_METEO_URL \o CRLF
                          \o <<65, 99, 99, 101, 112, 116, 58, 32, 97, 112, 112,
                          108, 105, 99, 97, 116, 105, 111, 110, 47, 106, 115,
                          111, 110>>
                          \o CRLF \o CRLF, 512)

\* the call of fetch_and_display_weather: the configured location
ConfigCall ==
    [fn |-> "fetch_weather_data_with", latitude |-> OPENMETEO_LATITUDE,
     longitude |-> OPENMETEO_LONGITUDE, timezone |-> OPENMETEO_TIMEZONE]

\* n times the byte b
Repeat(b, n) == [i \in 1..n |-> b]

\* calls with the configured location and with texts around the capacities
\* of lat_enc (16) and tz_enc (96); a '/' takes three bytes when encoded
ApiArgs ==
    [fn : {"fetch_weather_data_with"},
     latitude : {OPENMETEO_LATITUDE, Repeat(49, 17)},
     longitude : {OPENMETEO_LONGITUDE},
     timezone : {OPENMETEO_TIMEZONE, Repeat(97, 96), Repeat(97, 97), Repeat(47, 33)}]

\* build_open_meteo_request on each of them
Requests ==
    [a \in ApiArgs |-> build_open_meteo_request(a.latitude, a.longitude, a.timezone)]

(***************************************************************************)
(* graphics.rs: draw_weather_icon.  sinkOk tells whether the draw target   *)
(* accepts the pixels; the result carries the blits that were accepted.    *)
(***************************************************************************)
\* widths of WEATHER_ICONS_20PX and WEATHER_ICONS_70PX; the sheets are square
SHEET_20PX_WIDTH == 60
SHEET_70PX_WIDTH == 210

Point(x, y) == [x |-> x, y |-> y]

\* ImageRaw::sub_image keeps the part of the area that lies in the sheet
SubImage(sheetWidth, x, y, w, h) ==
    LET x2 == IF x + w > sheetWidth THEN sheetWidth ELSE x + w
        y2 == IF y + h > sheetWidth THEN sheetWidth ELSE y + h
    IN  IF x >= sheetWidth \/ y >= sheetWidth
        THEN [x |-> x, y |-> y, w |-> 0, h |-> 0]
        ELSE [x |-> x, y |-> y, w |-> x2 - x, h |-> y2 - y]

draw_weather_icon_ColumnMajor(icon_index, position, size, sinkOk) ==
    IF size \notin {20, 70} THEN [result |-> "Ok", ops |-> <<>>]
    ELSE LET sheetWidth == IF size = 20 THEN SHEET_20PX_WIDTH ELSE SHEET_70PX_WIDTH
             row == RustRem(icon_index, 3)
             col == RustDiv(icon_index, 3)
             area == SubImage(sheetWidth, col * size, row * size, size, size)
         IN  IF sinkOk
             THEN [result |-> "Ok",
                   ops |-> <<[op |-> "blit", sheet |-> sheetWidth, area |-> area,
                              at |-> position]>>]
             ELSE [result |-> "Err", ops |-> <<>>]

draw_weather_icon(icon_index, position, size, sinkOk) ==
    IF size \notin {20, 70} THEN [result |-> "Ok", ops |-> <<>>]
    ELSE LET sheetWidth == IF size = 20 THEN SHEET_20PX_WIDTH ELSE SHEET_70PX_WIDTH
             row == RustDiv(icon_index, 3)
             col == RustRem(icon_index, 3)
             area == SubImage(sheetWidth, col * size, row * size, size, size)
         IN  IF sinkOk
             THEN [result |-> "Ok",
                   ops |-> <<[op |-> "blit", sheet |-> sheetWidth, area |-> area,
                              at |-> position]>>]
             ELSE [result |-> "Err", ops |-> <<>>]

(***************************************************************************)
(* weather/model.rs: OpenMeteoResponse and its decoding.  A document is    *)
(* what the payload text says: the fields it spells out, the required      *)
(* fields it leaves out and those it gives with a value of another type.   *)
(* Floats are counted in tenths.                                           *)
(***************************************************************************)
MAX_DAYS == 7
BUF_LEN == 32
TZ_ABBR_LEN == 8

\* serde into heapless::Vec<T, N>: one element too many is an error
heapless_vec_Truncating(elems, N) ==
    Ok(SubSeq(elems, 1, IF Len(elems) > N THEN N ELSE Len(elems)))

heapless_vec(elems, N) == IF Len(elems) > N THEN Err("invalid length") ELSE Ok(elems)

\* serde into heapless::String<N>: a text longer than N bytes is an error
heapless_string(text, N) == IF Len(text) > N THEN Err("invalid length") ELSE Ok(text)

\* Vec<String<BUF_LEN>, MAX_DAYS>
heapless_vec_of_strings(elems, N) ==
    IF \E i \in 1..Len(elems) : heapless_string(elems[i], BUF_LEN).tag = "Err"
    THEN Err("invalid length")
    ELSE heapless_vec(elems, N)

\* the fields of daily, in the order of the struct
DailyTextFields == {"time", "sunrise", "sunset"}

DailyNumberFields ==
    {"weather_code", "temperature_2m_max", "temperature_2m_min", "wind_speed_10m_max",
     "wind_direction_10m_dominant"}

\* TryFrom<&[u8]> for OpenMeteoResponse: json_core::from_slice, all or nothing
try_from(d) ==
    IF d.tag # "json" THEN Err("JsonParseFailed")
    ELSE IF d.missing # {} \/ d.mistyped # {} THEN Err("JsonParseFailed")
    ELSE LET texts == [f \in DailyTextFields |-> heapless_vec_of_strings(d.daily[f], MAX_DAYS)]
             numbers == [f \in DailyNumberFields |-> heapless_vec(d.daily[f], MAX_DAYS)]
             timezone == heapless_string(d.timezone, BUF_LEN)
             abbreviation == heapless_string(d.timezone_abbreviation, TZ_ABBR_LEN)
             units == [f \in DOMAIN d.daily_units |-> heapless_string(d.daily_units[f], BUF_LEN)]
         IN  IF \/ \E f \in DailyTextFields : texts[f].tag = "Err"
                \/ \E f \in DailyNumberFields : numbers[f].tag = "Err"
                \/ timezone.tag = "Err"
                \/ abbreviation.tag = "Err"
                \/ \E f \in DOMAIN units : units[f].tag = "Err"
             THEN Err("JsonParseFailed")
             ELSE Ok([tag |-> "forecast",
                      latitude |-> d.latitude,
                      longitude |-> d.longitude,
                      timezone |-> timezone.value,
                      timezone_abbreviation |-> abbreviation.value,
                      daily_units |-> [f \in DOMAIN units |-> units[f].value],
                      daily |-> [f \in DailyTextFields \cup DailyNumberFields |->
                                    IF f \in DailyTextFields THEN texts[f].value
                                    ELSE numbers[f].value]])

(***************************************************************************)
(* The documents a peer sends in the model.                                *)
(***************************************************************************)
\* n in decimal, zero-padded to w digits
RECURSIVE Pad(_, _)
Pad(n, w) == IF w = 0 THEN <<>> ELSE Append(Pad(n \div 10, w - 1), Digits[(n % 10) + 1])

\* "YYYY-MM-DD"
Iso(y, m, d) == Pad(y, 4) \o <<"-">> \o Pad(m, 2) \o <<"-">> \o Pad(d, 2)

\* "YYYY-MM-DDTHH:MM"
IsoTime(y, m, d, hh, mm) ==
    Iso(y, m, d) \o <<"T">> \o Pad(hh, 2) \o <<":">> \o Pad(mm, 2)

\* a well-formed document of n days, starting on 2024-06-01; of daily_units
\* it spells out here the two labels that are drawn
SampleDoc(n) ==
    [tag |-> "json",
     missing |-> {},
     mistyped |-> {},
     latitude |-> 399,
     longitude |-> -1050,
     timezone |-> <<"U", "T", "C">>,
     timezone_abbreviation |-> <<"U", "T", "C">>,
     daily_units |-> [temperature_2m_max |-> <<"d", "e", "g", "F">>,
                      wind_speed_10m_max |-> <<"m", "p", "h">>],
     daily |-> [time |-> [i \in 1..n |-> Iso(2024, 6, i)],
                weather_code |-> [i \in 1..n |-> <<63, 0, 95, 3, 45, 71, 80, 2>>[i]],
                temperature_2m_max |-> [i \in 1..n |-> 716 + 10 * i],
                temperature_2m_min |-> [i \in 1..n |-> 504 - 10 * i],
                sunrise |-> [i \in 1..n |-> IsoTime(2024, 6, i, 5, 32)],
                sunset |-> [i \in 1..n |-> IsoTime(2024, 6, i, 20, 21)],
                wind_speed_10m_max |-> [i \in 1..n |-> 120 + i],
                wind_direction_10m_dominant |-> [i \in 1..n |-> 44 * i]]]

\* the payload holds no JSON value
EmptyDoc == [tag |-> "empty"]

\* d with element i of the daily text field f replaced
WithDailyText(d, f, i, text) ==
    [d EXCEPT !.daily[f] = [d.daily[f] EXCEPT ![i] = text]]

\* documents the decoder must refuse: no JSON value, an array of MAX_DAYS + 1
\* elements, a text one byte over its capacity, a field left out, a field of
\* another type
BadDocs ==
    {EmptyDoc,
     [SampleDoc(MaxDays) EXCEPT !.daily.weather_code = SampleDoc(MAX_DAYS + 1).daily.weather_code],
     WithDailyText(SampleDoc(MaxDays), "sunrise", 1, Pad(0, BUF_LEN + 1)),
     [SampleDoc(MaxDays) EXCEPT !.timezone_abbreviation = Pad(0, TZ_ABBR_LEN + 1)],
     [SampleDoc(MaxDays) EXCEPT !.missing = {"daily"}],
     [SampleDoc(MaxDays) EXCEPT !.mistyped = {"weather_code"}]}

\* documents at the capacities, which the decoder accepts
FullDocs ==
    {SampleDoc(MAX_DAYS),
     [SampleDoc(MaxDays) EXCEPT !.timezone = Pad(0, BUF_LEN),
                                !.timezone_abbreviation = Pad(0, TZ_ABBR_LEN)]}

\* documents that decode and whose dates are not as the feed's: today's has
\* month 13, the last day's stops after the month
OddDocs ==
    {WithDailyText(SampleDoc(MaxDays), "time", 1, Iso(2024, 13, 1)),
     WithDailyText(SampleDoc(MaxDays), "time", MaxDays, <<"2", "0", "2", "4", "-", "0", "6">>)}

Docs == {SampleDoc(n) : n \in 1..MaxDays} \cup FullDocs \cup BadDocs \cup OddDocs

\* try_from on each of them
Decoded == [d \in Docs |-> try_from(d)]

(***************************************************************************)
(* The Display of an f32 counted in tenths: "{}", "{:.0}" and "{:.4}".     *)
(***************************************************************************)
Sign(t) == IF t < 0 THEN <<"-">> ELSE <<>>

Abs(t) == IF t < 0 THEN 0 - t ELSE t

\* "{}": the shortest text that reads back as the value
FloatText(t) ==
    Sign(t) \o NatText(Abs(t) \div 10)
        \o (IF Abs(t) % 10 = 0 THEN <<>> ELSE <<".", Digits[(Abs(t) % 10) + 1]>>)

FixedText0_Truncating(t) ==
    Sign(t) \o NatText(Abs(t) \div 10)

\* "{:.0}": no fractional digit, the value rounded, a tie to the even integer
FixedText0(t) ==
    LET q == Abs(t) \div 10
        r == Abs(t) % 10
        up == r > 5 \/ (r = 5 /\ q % 2 = 1)
    IN  Sign(t) \o NatText(IF up THEN q + 1 ELSE q)

\* "{:.4}": four fractional digits
FixedText4(t) ==
    Sign(t) \o NatText(Abs(t) \div 10) \o <<".", Digits[(Abs(t) % 10) + 1], "0", "0", "0">>

\* bytes of a piece of text: the static names are whole pieces
PieceLen(piece) == IF piece \in {"NE", "SE", "SW", "NW"} THEN 2 ELSE 1

RECURSIVE TextLen(_)
TextLen(text) == IF text = <<>> THEN 0 ELSE PieceLen(Head(text)) + TextLen(Tail(text))

(***************************************************************************)
(* graphics.rs, display.rs: the draw functions.  Each gives the operations *)
(* it issues on the display, in order; an operation "panic" ends the       *)
(* program at that point (unwrap of None or Err, index out of range).      *)
(***************************************************************************)
Panic(step, what) == [op |-> "panic", step |-> step, what |-> what]

TextOp(step, what, at, text) ==
    [op |-> "text", step |-> step, what |-> what, at |-> at, text |-> text]

IconOp(step, what, icon_index, position, size) ==
    LET blit == draw_weather_icon(icon_index, position, size, TRUE).ops[1]
    IN  [op |-> "blit", step |-> step, what |-> what, at |-> blit.at,
         sheet |-> blit.sheet, area |-> blit.area]

PointAdd(p, q) == Point(p.x + q.x, p.y + q.y)

\* write!(&mut String<8>, "{:.0}{}", temp, temp_unit).unwrap(), then the text box
TempOp(step, what, at, temp, temp_unit) ==
    LET text == FixedText0(temp) \o <<temp_unit>>
    IN  IF TextLen(text) > 8 THEN Panic(step, "write") ELSE TextOp(step, what, at, text)

draw_background_image == <<[op |-> "image", step |-> "background", what |-> "WEATHER_BG",
                            at |-> Point(0, 0)]>>

draw_today_weather_icon(weather_code) ==
    <<IconOp("today_icon", "icon", weather_code_to_icon_index(weather_code), Point(6, 40), 70)>>

draw_today_date(date) ==
    IF format_date(date) = None THEN <<Panic("today_date", "format_date")>>
    ELSE <<TextOp("today_date", "date", Point(8, 16), format_date(date).value)>>

draw_today_lat_long(lat, long) ==
    LET text == <<"(">> \o FixedText4(lat) \o <<",", " ">> \o FixedText4(long) \o <<")">>
    IN  IF TextLen(text) > 24 THEN <<Panic("lat_long", "write")>>
        ELSE <<TextOp("lat_long", "lat_long", Point(8, 27), text)>>

draw_today_high_low(high, low, temp_unit) ==
    <<TempOp("high_low", "low", Point(100, 60), low, temp_unit),
      TempOp("high_low", "high", Point(140, 60), high, temp_unit)>>

draw_today_wind(wind_speed, wind_dir, wind_unit) ==
    LET text == FloatText(wind_speed) \o wind_unit \o <<" ", wind_dir_text(wind_dir)>>
    IN  IF TextLen(text) > 24 THEN <<Panic("wind", "write")>>
        ELSE <<TextOp("wind", "wind", Point(95, 90), text)>>

HhMmOp(what, at, iso) ==
    IF get_iso_8601_hh_mm(iso) = None THEN Panic("sunrise_sunset", what)
    ELSE TextOp("sunrise_sunset", what, at, get_iso_8601_hh_mm(iso).value)

draw_today_sunrise_sunset(sunrise, sunset) ==
    <<HhMmOp("sunrise", Point(30, 113), sunrise), HhMmOp("sunset", Point(115, 113), sunset)>>

\* date[a..b].parse().unwrap() as i32: None stands for the panic
SliceParse(date, a, b) == IF b > Len(date) THEN None ELSE parse_i32(SubSeq(date, a + 1, b))

\* one turn of the loop of draw_future_weather_view; i is the index of the source
FutureDay(weather_data, temp_unit, i) ==
    LET daily == weather_data.daily
        start_point == Point(191, 15 + ((i - 1) * 18))
        date == daily.time[i + 1]
        y == SliceParse(date, 0, 4)
        m == SliceParse(date, 5, 7)
        d == SliceParse(date, 8, 10)
        dow == IF y = None \/ m = None \/ d = None THEN [tag |-> "panic"]
               ELSE day_of_week_sakamoto(y.value, m.value, d.value)
    IN  <<IF dow.tag = "panic" THEN Panic("future_days", "day_of_week")
          ELSE TextOp("future_days", "day_of_week", PointAdd(start_point, Point(0, 5)),
                      <<dow.value>>),
          IF i + 1 > Len(daily.weather_code) THEN Panic("future_days", "icon")
          ELSE IconOp("future_days", "icon", weather_code_to_icon_index(daily.weather_code[i + 1]),
                      PointAdd(start_point, Point(20, 0)), 20),
          IF i + 1 > Len(daily.temperature_2m_min) THEN Panic("future_days", "min")
          ELSE TempOp("future_days", "min", PointAdd(start_point, Point(45, 5)),
                      daily.temperature_2m_min[i + 1], temp_unit),
          IF i + 1 > Len(daily.temperature_2m_max) THEN Panic("future_days", "max")
          ELSE TempOp("future_days", "max", PointAdd(start_point, Point(75, 5)),
                      daily.temperature_2m_max[i + 1], temp_unit)>>

\* the turns first..days-1 of the loop
RECURSIVE FutureDays(_, _, _)
FutureDays(weather_data, temp_unit, first) ==
    IF first >= Len(weather_data.daily.time) THEN <<>>
    ELSE FutureDay(weather_data, temp_unit, first)
             \o FutureDays(weather_data, temp_unit, first + 1)

draw_future_weather_view_FromToday(weather_data) ==
    LET unit == weather_data.daily_units.temperature_2m_max
    IN  IF unit = <<>> THEN <<Panic("future_days", "temp_unit")>>
        ELSE FutureDays(weather_data, unit[Len(unit)], 0)

draw_future_weather_view(weather_data) ==
    LET unit == weather_data.daily_units.temperature_2m_max
    IN  IF unit = <<>> THEN <<Panic("future_days", "temp_unit")>>
        ELSE FutureDays(weather_data, unit[Len(unit)], 1)

\* graphical_display: the display set-up, the eight draw steps, the transfer
RenderSteps ==
    <<"epd_new", "epd_begin", "background", "today_icon", "today_date", "lat_long",
      "high_low", "wind", "sunrise_sunset", "future_days", "update_display">>

\* every operation graphical_display issues when none fails, up to a panic
RenderPlan(weather_data) ==
    LET daily == weather_data.daily
        unit == weather_data.daily_units.temperature_2m_max
    IN  <<[op |-> "epd", step |-> "epd_new", what |-> "new"],
          [op |-> "epd", step |-> "epd_begin", what |-> "begin"]>>
        \o draw_background_image
        \o (IF daily.weather_code = <<>> THEN <<Panic("today_icon", "first")>>
            ELSE draw_today_weather_icon(daily.weather_code[1]))
        \o (IF daily.time = <<>> THEN <<Panic("today_date", "first")>>
            ELSE draw_today_date(daily.time[1]))
        \o draw_today_lat_long(weather_data.latitude, weather_data.longitude)
        \o (IF daily.temperature_2m_max = <<>> \/ daily.temperature_2m_min = <<>> \/ unit = <<>>
            THEN <<Panic("high_low", "first")>>
            ELSE draw_today_high_low(daily.temperature_2m_max[1], daily.temperature_2m_min[1],
                                     unit[Len(unit)]))
        \o (IF daily.wind_speed_10m_max = <<>> \/ daily.wind_direction_10m_dominant = <<>>
            THEN <<Panic("wind", "first")>>
            ELSE draw_today_wind(daily.wind_speed_10m_max[1],
                                 daily.wind_direction_10m_dominant[1],
                                 weather_data.daily_units.wind_speed_10m_max))
        \o (IF daily.sunrise = <<>> \/ daily.sunset = <<>>
            THEN <<Panic("sunrise_sunset", "first")>>
            ELSE draw_today_sunrise_sunset(daily.sunrise[1], daily.sunset[1]))
        \o draw_future_weather_view(weather_data)
        \o <<[op |-> "epd", step |-> "update_display", what |-> "update_gray2_and_display"]>>

RunPlan_IgnoringErrors(plan, failAt) ==
    LET stops == {i \in 1..Len(plan) : plan[i].op = "panic"}
        stop == CHOOSE i \in stops : \A j \in stops : i <= j
        last == IF stops = {} THEN Len(plan) ELSE stop - 1
        kept == {i \in 1..last : i # failAt}
        Nth(k) == CHOOSE i \in kept : Cardinality({j \in kept : j < i}) = k - 1
    IN  [result |-> IF stops = {} THEN "Ok" ELSE "panic",
         done |-> [k \in 1..Cardinality(kept) |-> plan[Nth(k)]]]

\* operation number failAt reports an error (0: none does) and `?` returns
\* at once with DisplayError
RunPlan(plan, failAt) ==
    LET stops == {i \in 1..Len(plan) : plan[i].op = "panic" \/ i = failAt}
        stop == CHOOSE i \in stops : \A j \in stops : i <= j
    IN  IF stops = {} THEN [result |-> "Ok", done |-> plan]
        ELSE [result |-> IF plan[stop].op = "panic" THEN "panic" ELSE "DisplayError",
              done |-> SubSeq(plan, 1, stop - 1)]

graphical_display(weather_data, failAt) == RunPlan(RenderPlan(weather_data), failAt)

(***************************************************************************)
(* State.                                                                  *)
(***************************************************************************)
VARIABLES
    mainPc,       \* position of the main task
    mainTimer,    \* seconds left of the with_deadline in force, -1 when none
    elapsed,      \* seconds since the wait in force began
    observed,     \* what the main task has seen: records [what, inTime]
    shown,        \* messages handed to the text display, in order
    cycleResult,  \* result of fetch_and_display_weather
    failedStage,  \* stage of the cycle that reported a failure
    sleeps,       \* durations of the deep sleeps entered
    phases,       \* network phases the fetch has started, in order
    fetchResult,  \* result of the fetch
    outcomes,     \* how the phases that ended have ended: "ok" | "error" | "timeout"
    buf,          \* api.rs: the fixed buffer the reads fill and the fetch returns
    resp,         \* http.rs: the growable response vector
    rxBytes,      \* every byte the socket delivered, in read order
    reads,        \* number of non-empty reads
    payload,      \* result of extract_json_payload
    doc,          \* what the payload text says, as the decoder reads it
    forecast,     \* the decoded OpenMeteoResponse
    drawn,        \* draw operations issued to the display buffer, in order
    connPc,       \* position of the connection task
    connTimer,    \* seconds left of the connection task's timer, -1 when none
    staState,     \* esp_radio::wifi::sta_state()
    started,      \* controller.is_started()
    linkUp,       \* stack.is_link_up()
    hasIp,        \* stack.config_v4().is_some()
    netPc,        \* position of the network pump task
    arg,          \* argument of the helper function under call
    ret           \* what the helper function returned

mainVars == <<mainPc, mainTimer, elapsed, observed, shown, cycleResult, failedStage, sleeps>>
fetchVars == <<phases, fetchResult, outcomes, buf, resp, rxBytes, reads>>
tailVars == <<payload, doc, forecast, drawn>>
fnVars == <<arg, ret>>
connVars == <<connPc, connTimer, started>>
netVars == <<linkUp, hasIp, netPc>>
vars == <<mainVars, fetchVars, tailVars, fnVars, connVars, netVars, staState>>

\* positions at which the main task is suspended on a deadline-bounded wait
MainAwaitPcs == {"wait_link", "wait_ip", "resolve", "connect", "send", "receive"}

\* positions at which the connection task holds the executor
ConnRunningPcs == {"loop_top", "check_started", "check_started_after_wait"}

\* the device is powered and the program has not aborted
Alive == mainPc \notin {"boot", "asleep", "panicked"}

\* every task is suspended: the executor polls whichever task is woken
ExecutorFree == mainPc \in MainAwaitPcs /\ connPc \notin ConnRunningPcs

\* the connection task loops without reaching a suspension point
Spinning == connPc \in ConnRunningPcs /\ staState # "Connected" /\ started

\* the network stack can move packets
NetReady == netPc = "running" /\ linkUp /\ hasIp

Deadline(pc) ==
    CASE pc = "wait_link" -> LINK_TIMEOUT
      [] pc = "wait_ip" -> IP_TIMEOUT
      [] pc = "resolve" -> RESOLVE_TIMEOUT
      [] pc = "connect" -> CONNECT_TIMEOUT
      [] pc = "send" -> REQUEST_TIMEOUT
      [] pc = "receive" -> RESPONSE_TIMEOUT
      [] OTHER -> 0

ZeroBuf == [i \in 1..BufN |-> NUL]

\* nothing decoded, nothing called
NoDoc == [tag |-> "none"]
NoForecast == [tag |-> "none"]
NoArg == [fn |-> "none"]
NoRet == [tag |-> "none"]

InitCommon ==
    /\ mainTimer = -1
    /\ elapsed = 0
    /\ observed = <<>>
    /\ shown = <<>>
    /\ cycleResult = "none"
    /\ failedStage = "none"
    /\ sleeps = <<>>
    /\ phases = <<>>
    /\ fetchResult = "none"
    /\ outcomes = <<>>
    /\ resp = <<>>
    /\ rxBytes = <<>>
    /\ reads = 0
    /\ payload = NoPayload
    /\ doc = NoDoc
    /\ forecast = NoForecast
    /\ drawn = <<>>
    /\ ret = NoRet
    /\ connTimer = -1

\* the device at reset
Init ==
    /\ InitCommon
    /\ arg = ConfigCall
    /\ mainPc = "boot"
    /\ buf = <<>>
    /\ connPc = "idle"
    /\ staState = "Disconnected"
    /\ started = FALSE
    /\ linkUp = FALSE
    /\ hasIp = FALSE
    /\ netPc = "idle"

(***************************************************************************)
(* enter_deep_sleep_secs and show_app_error.                               *)
(***************************************************************************)
enter_deep_sleep_secs(secs) ==
    /\ sleeps' = Append(sleeps, secs)
    /\ mainPc' = "asleep"
    /\ mainTimer' = -1

show_app_error(msg) == shown' = Append(shown, msg)

(***************************************************************************)
(* main: from reset to the first suspension point.                         *)
(***************************************************************************)
MainInit ==
    /\ mainPc = "boot"
    /\ \E outcome \in {"spi_err", "device_err", "radio_err", "wifi_err", "ok"} :
        CASE outcome \in {"spi_err", "device_err"} ->
                /\ enter_deep_sleep_secs(SLEEP_ON_ERROR_SECS)
                /\ UNCHANGED <<shown, elapsed, connPc, netPc>>
          [] outcome \in {"radio_err", "wifi_err"} ->
                /\ show_app_error(outcome)
                /\ enter_deep_sleep_secs(SLEEP_ON_ERROR_SECS)
                /\ UNCHANGED <<elapsed, connPc, netPc>>
          [] OTHER ->
                /\ connPc' = "spawned"
                /\ netPc' = "running"
                /\ mainPc' = "wait_link"
                /\ mainTimer' = LINK_TIMEOUT
                /\ elapsed' = 0
                /\ UNCHANGED <<shown, sleeps>>
    /\ UNCHANGED <<observed, cycleResult, failedStage, fetchVars, tailVars, fnVars,
                   connTimer, started, staState, linkUp, hasIp>>

\* the link-up wait ends: stack.is_link_up() was seen true
MainLinkUp ==
    /\ mainPc = "wait_link" /\ ExecutorFree
    /\ linkUp
    /\ observed' = Append(observed, [what |-> "link", inTime |-> elapsed <= LINK_TIMEOUT])
    /\ mainPc' = "wait_ip"
    /\ mainTimer' = IP_TIMEOUT
    /\ elapsed' = 0
    /\ UNCHANGED <<shown, cycleResult, failedStage, sleeps, fetchVars, tailVars, fnVars,
                   connVars, netVars, staState>>

\* MainLinkTimeout without its enter_deep_sleep_secs: main goes on to the address wait
MainLinkTimeout_NoSleep ==
    /\ mainPc = "wait_link" /\ ExecutorFree
    /\ mainTimer = 0
    /\ show_app_error("link_timeout")
    /\ mainPc' = "wait_ip"
    /\ mainTimer' = IP_TIMEOUT
    /\ elapsed' = 0
    /\ UNCHANGED <<observed, cycleResult, failedStage, sleeps, fetchVars, tailVars, fnVars,
                   connVars, netVars, staState>>

MainLinkTimeout ==
    /\ mainPc = "wait_link" /\ ExecutorFree
    /\ mainTimer = 0
    /\ show_app_error("link_timeout")
    /\ enter_deep_sleep_secs(SLEEP_ON_ERROR_SECS)
    /\ UNCHANGED <<elapsed, observed, cycleResult, failedStage, fetchVars, tailVars, fnVars,
                   connVars, netVars, staState>>

\* the address wait ends: the fetch begins and suspends on the DNS query
MainIpUp ==
    /\ mainPc = "wait_ip" /\ ExecutorFree
    /\ hasIp
    /\ observed' = Append(observed, [what |-> "ip", inTime |-> elapsed <= IP_TIMEOUT])
    /\ buf' = ZeroBuf
    /\ phases' = <<"resolve">>
    /\ mainPc' = "resolve"
    /\ mainTimer' = RESOLVE_TIMEOUT
    /\ elapsed' = 0
    /\ UNCHANGED <<shown, cycleResult, failedStage, sleeps, fetchResult, outcomes,
                   resp, rxBytes, reads, tailVars, fnVars, connVars, netVars, staState>>

MainIpTimeout ==
    /\ mainPc = "wait_ip" /\ ExecutorFree
    /\ mainTimer = 0
    /\ show_app_error("ip_timeout")
    /\ enter_deep_sleep_secs(SLEEP_ON_ERROR_SECS)
    /\ UNCHANGED <<elapsed, observed, cycleResult, failedStage, fetchVars, tailVars, fnVars,
                   connVars, netVars, staState>>

(***************************************************************************)
(* The fetch of the cycle: fetch_weather_data_with of api.rs.  Each action *)
(* runs the main task from one suspension point to the next.               *)
(***************************************************************************)
\* chunks a read can deliver: 1..BufN bytes
Chunks(S) == SeqsUpTo(S, BufN) \ {<<>>}

\* the phase in force ended well: the next one begins under a deadline of its own
StartPhase(p) ==
    /\ phases' = Append(phases, p)
    /\ outcomes' = Append(outcomes, "ok")
    /\ mainPc' = p
    /\ mainTimer' = Deadline(p)
    /\ elapsed' = 0

\* the fetch returns to fetch_and_display_weather
FetchReturn(result, outcome) ==
    /\ fetchResult' = result
    /\ outcomes' = Append(outcomes, outcome)
    /\ mainPc' = "fetched"
    /\ mainTimer' = -1

ApiResolveOk ==
    /\ mainPc = "resolve" /\ ExecutorFree /\ NetReady
    /\ StartPhase("connect")
    /\ UNCHANGED <<observed, shown, cycleResult, failedStage, sleeps, fetchResult,
                   buf, resp, rxBytes, reads, tailVars, fnVars, connVars, netVars, staState>>

ApiResolveErr ==
    /\ mainPc = "resolve" /\ ExecutorFree
    /\ FetchReturn("DnsQueryFailed", "error")
    /\ UNCHANGED <<elapsed, observed, shown, cycleResult, failedStage, sleeps, phases,
                   buf, resp, rxBytes, reads, tailVars, fnVars, connVars, netVars, staState>>

ApiResolveTimeout ==
    /\ mainPc = "resolve" /\ ExecutorFree
    /\ mainTimer = 0
    /\ FetchReturn("DnsQueryFailed", "timeout")
    /\ UNCHANGED <<elapsed, observed, shown, cycleResult, failedStage, sleeps, phases,
                   buf, resp, rxBytes, reads, tailVars, fnVars, connVars, netVars, staState>>

\* connected; the request is built now and `?` returns when it cannot be
ApiConnectOk ==
    /\ mainPc = "connect" /\ ExecutorFree /\ NetReady
    /\ IF Requests[arg].tag = "Ok"
       THEN /\ StartPhase("send")
            /\ UNCHANGED fetchResult
       ELSE /\ FetchReturn(Requests[arg].error, "ok")
            /\ UNCHANGED <<elapsed, phases>>
    /\ UNCHANGED <<observed, shown, cycleResult, failedStage, sleeps,
                   buf, resp, rxBytes, reads, tailVars, fnVars, connVars, netVars, staState>>

ApiConnectErr ==
    /\ mainPc = "connect" /\ ExecutorFree
    /\ FetchReturn("ConnectionFailed", "error")
    /\ UNCHANGED <<elapsed, observed, shown, cycleResult, failedStage, sleeps, phases,
                   buf, resp, rxBytes, reads, tailVars, fnVars, connVars, netVars, staState>>

ApiConnectTimeout ==
    /\ mainPc = "connect" /\ ExecutorFree
    /\ mainTimer = 0
    /\ FetchReturn("ConnectionFailed", "timeout")
    /\ UNCHANGED <<elapsed, observed, shown, cycleResult, failedStage, sleeps, phases,
                   buf, resp, rxBytes, reads, tailVars, fnVars, connVars, netVars, staState>>

ApiSendOk ==
    /\ mainPc = "send" /\ ExecutorFree /\ NetReady
    /\ StartPhase("receive")
    /\ UNCHANGED <<observed, shown, cycleResult, failedStage, sleeps, fetchResult,
                   buf, resp, rxBytes, reads, tailVars, fnVars, connVars, netVars, staState>>

ApiSendErr ==
    /\ mainPc = "send" /\ ExecutorFree
    /\ FetchReturn("HttpRequestFailed", "error")
    /\ UNCHANGED <<elapsed, observed, shown, cycleResult, failedStage, sleeps, phases,
                   buf, resp, rxBytes, reads, tailVars, fnVars, connVars, netVars, staState>>

ApiSendTimeout ==
    /\ mainPc = "send" /\ ExecutorFree
    /\ mainTimer = 0
    /\ FetchReturn("HttpRequestFailed", "timeout")
    /\ UNCHANGED <<elapsed, observed, shown, cycleResult, failedStage, sleeps, phases,
                   buf, resp, rxBytes, reads, tailVars, fnVars, connVars, netVars, staState>>

\* socket.read(&mut buf) fills buf from its first byte on every read
ReadInto(b, chunk) == [i \in 1..Len(b) |-> IF i <= Len(chunk) THEN chunk[i] ELSE b[i]]

\* Ok(n), n > 0: the loop goes on to the next read
ApiReadChunk ==
    /\ mainPc = "receive" /\ ExecutorFree /\ NetReady
    /\ reads < MaxChunks
    /\ \E chunk \in Chunks(WireByte) :
        /\ buf' = ReadInto(buf, chunk)
        /\ rxBytes' = rxBytes \o chunk
    /\ reads' = reads + 1
    /\ UNCHANGED <<mainVars, phases, fetchResult, outcomes, resp, tailVars, fnVars, connVars,
                   netVars, staState>>

\* Ok(0): the peer closed
ApiReadEof ==
    /\ mainPc = "receive" /\ ExecutorFree /\ NetReady
    /\ FetchReturn("Ok", "ok")
    /\ UNCHANGED <<elapsed, observed, shown, cycleResult, failedStage, sleeps, phases,
                   buf, resp, rxBytes, reads, tailVars, fnVars, connVars, netVars, staState>>

ApiReadErr ==
    /\ mainPc = "receive" /\ ExecutorFree
    /\ FetchReturn("SocketReadError", "error")
    /\ UNCHANGED <<elapsed, observed, shown, cycleResult, failedStage, sleeps, phases,
                   buf, resp, rxBytes, reads, tailVars, fnVars, connVars, netVars, staState>>

ApiReceiveTimeout ==
    /\ mainPc = "receive" /\ ExecutorFree
    /\ mainTimer = 0
    /\ FetchReturn("SocketReadError", "timeout")
    /\ UNCHANGED <<elapsed, observed, shown, cycleResult, failedStage, sleeps, phases,
                   buf, resp, rxBytes, reads, tailVars, fnVars, connVars, netVars, staState>>

(***************************************************************************)
(* fetch_and_display_weather after the fetch returned, and the end of      *)
(* main.  These steps run without a suspension point.                      *)
(***************************************************************************)
\* the response buffer goes out of scope
DropResponse ==
    /\ buf' = <<>>
    /\ rxBytes' = <<>>
    /\ reads' = 0

\* the fetch failed: the error is shown and returned
FetchFailed ==
    /\ mainPc = "fetched"
    /\ fetchResult # "Ok"
    /\ show_app_error("fetch_error")
    /\ cycleResult' = fetchResult
    /\ failedStage' = "fetch"
    /\ mainPc' = "result"
    /\ DropResponse
    /\ UNCHANGED <<mainTimer, elapsed, observed, sleeps, phases, fetchResult, outcomes,
                   resp, tailVars, fnVars, connVars, netVars, staState>>

\* the payload is cut out of the buffer and decoded; what the text says is the
\* peer's choice, an empty payload holds no JSON value
DecodePayload ==
    /\ mainPc = "fetched"
    /\ fetchResult = "Ok"
    /\ payload' = extract_json_payload(buf)
    /\ IF payload'.tag = "panic"
       THEN /\ mainPc' = "panicked"
            /\ UNCHANGED <<shown, cycleResult, failedStage, doc, forecast>>
       ELSE \E d \in Docs :
            LET decoded == Decoded[d]
            IN
            /\ payload'.bytes = <<>> => d = EmptyDoc
            /\ doc' = d
            /\ IF decoded.tag = "Ok"
               THEN /\ forecast' = decoded.value
                    /\ mainPc' = "render"
                    /\ UNCHANGED <<shown, cycleResult, failedStage>>
               ELSE /\ shown' = Append(shown, "json_error")
                    /\ cycleResult' = "JsonParseFailed"
                    /\ failedStage' = "decode"
                    /\ mainPc' = "result"
                    /\ UNCHANGED forecast
    /\ DropResponse
    /\ UNCHANGED <<mainTimer, elapsed, observed, sleeps, phases, fetchResult, outcomes,
                   resp, drawn, fnVars, connVars, netVars, staState>>

\* graphical_display on each forecast of Docs, with each of the operations it
\* gets to failing in turn (0: none fails)
Rendered ==
    [weather_data \in {Decoded[d].value : d \in {e \in Docs : Decoded[e].tag = "Ok"}} |->
        [failAt \in 0..Len(graphical_display(weather_data, 0).done) |->
            graphical_display(weather_data, failAt)]]

\* the forecast is rendered and one of the operations render gets to may fail;
\* fetch_and_display_weather drops render's result (let _ = ...) and returns
\* Ok(()); a panic of render ends the program
Render ==
    /\ mainPc = "render"
    /\ \E failAt \in DOMAIN Rendered[forecast] :
        LET rendered == Rendered[forecast][failAt]
        IN  /\ drawn' = rendered.done
            /\ IF rendered.result = "panic"
               THEN /\ mainPc' = "panicked"
                    /\ UNCHANGED <<cycleResult, failedStage>>
               ELSE /\ failedStage' = IF rendered.result = "Ok" THEN "none" ELSE "render"
                    /\ cycleResult' = "Ok"
                    /\ mainPc' = "result"
    /\ UNCHANGED <<mainTimer, elapsed, observed, shown, sleeps, fetchVars, payload,
                   doc, forecast, fnVars,
                   connVars, netVars, staState>>

\* match weather_result
MainSleep ==
    /\ mainPc = "result"
    /\ IF cycleResult = "Ok"
       THEN enter_deep_sleep_secs(SLEEP_ON_SUCCESS_SECS)
       ELSE enter_deep_sleep_secs(SLEEP_ON_ERROR_SECS)
    /\ UNCHANGED <<elapsed, observed, shown, cycleResult, failedStage, fetchVars,
                   tailVars, fnVars, connVars, netVars, staState>>

(***************************************************************************)
(* The connection task.                                                    *)
(***************************************************************************)
\* Timer::after(Duration::from_secs(5)) before the next iteration
ConnBackoff ==
    /\ connPc' = "backoff"
    /\ connTimer' = RECONNECT_DELAY

\* the task is polled for the first time
ConnFirstPoll ==
    /\ connPc = "spawned" /\ ExecutorFree
    /\ connPc' = "loop_top"
    /\ UNCHANGED <<mainVars, fetchVars, tailVars, fnVars, connTimer, started, netVars, staState>>

\* loop { if sta_state() == Connected { wait_for_event(StaDisconnected).await ..
ConnLoopTop ==
    /\ connPc = "loop_top" /\ Alive
    /\ connPc' = IF staState = "Connected" THEN "wait_disconnect" ELSE "check_started"
    /\ UNCHANGED <<mainVars, fetchVars, tailVars, fnVars, connTimer, started, netVars, staState>>

\* the StaDisconnected event arrived: Timer::after(5 s)
ConnDisconnected ==
    /\ connPc = "wait_disconnect" /\ ExecutorFree
    /\ staState # "Connected"
    /\ connPc' = "timer_disconnected"
    /\ connTimer' = RECONNECT_DELAY
    /\ UNCHANGED <<mainVars, fetchVars, tailVars, fnVars, started, netVars, staState>>

\* the timer after the disconnect ran out: on to the is_started() test
ConnAfterDisconnected ==
    /\ connPc = "timer_disconnected" /\ ExecutorFree
    /\ connTimer = 0
    /\ connPc' = "check_started_after_wait"
    /\ connTimer' = -1
    /\ UNCHANGED <<mainVars, fetchVars, tailVars, fnVars, started, netVars, staState>>

\* if !matches!(controller.is_started(), Ok(true)) { set_config; start_async ..
\* otherwise the body is skipped and the loop starts over
ConnCheckStarted ==
    /\ connPc \in {"check_started", "check_started_after_wait"} /\ Alive
    /\ IF started
       THEN connPc' = "loop_top" /\ UNCHANGED connTimer
       ELSE \E configOk \in BOOLEAN :
            IF configOk
            THEN connPc' = "start_async" /\ UNCHANGED connTimer
            ELSE ConnBackoff
    /\ UNCHANGED <<mainVars, fetchVars, tailVars, fnVars, started, netVars, staState>>

\* controller.start_async().await completed
ConnStartDone ==
    /\ connPc = "start_async" /\ ExecutorFree
    /\ \E ok \in BOOLEAN :
        IF ok
        THEN started' = TRUE /\ connPc' = "connect_async" /\ UNCHANGED connTimer
        ELSE ConnBackoff /\ UNCHANGED started
    /\ UNCHANGED <<mainVars, fetchVars, tailVars, fnVars, netVars, staState>>

\* controller.connect_async().await completed
ConnConnectDone ==
    /\ connPc = "connect_async" /\ ExecutorFree
    /\ \E ok \in BOOLEAN :
        IF ok
        THEN staState' = "Connected" /\ connPc' = "loop_top" /\ UNCHANGED connTimer
        ELSE ConnBackoff /\ UNCHANGED staState
    /\ UNCHANGED <<mainVars, fetchVars, tailVars, fnVars, started, netVars>>

\* a 5 s timer that ends an iteration ran out
ConnBackoffDone ==
    /\ connPc = "backoff" /\ ExecutorFree
    /\ connTimer = 0
    /\ connPc' = "loop_top"
    /\ connTimer' = -1
    /\ UNCHANGED <<mainVars, fetchVars, tailVars, fnVars, started, netVars, staState>>

(***************************************************************************)
(* The radio and the network pump task (runner.run()).                     *)
(***************************************************************************)
\* the access point drops the station
StaDisconnect ==
    /\ Alive
    /\ staState = "Connected"
    /\ staState' = "Disconnected"
    /\ UNCHANGED <<mainVars, fetchVars, tailVars, fnVars, connVars, netVars>>

\* the runner passes the station's link state on to the stack
NetLinkChange ==
    /\ netPc = "running" /\ ExecutorFree
    /\ linkUp # (staState = "Connected")
    /\ linkUp' = (staState = "Connected")
    /\ hasIp' = FALSE
    /\ UNCHANGED <<mainVars, fetchVars, tailVars, fnVars, connVars, netPc, staState>>

\* DHCP configured an address
NetDhcpBound ==
    /\ netPc = "running" /\ ExecutorFree
    /\ linkUp /\ ~hasIp
    /\ hasIp' = TRUE
    /\ UNCHANGED <<mainVars, fetchVars, tailVars, fnVars, connVars, linkUp, netPc, staState>>

(***************************************************************************)
(* Time.  A second passes when every task is suspended and none of them is *)
(* due, or while the connection task spins.                                *)
(***************************************************************************)
Due ==
    \/ mainTimer = 0
    \/ connTimer = 0
    \/ mainPc = "wait_link" /\ linkUp
    \/ mainPc = "wait_ip" /\ hasIp

Tick ==
    /\ mainPc \in MainAwaitPcs
    /\ \/ ExecutorFree /\ ~Due
       \/ Spinning /\ elapsed < Deadline(mainPc) + MaxOverdue
    /\ elapsed' = elapsed + 1
    /\ mainTimer' = IF mainTimer > 0 THEN mainTimer - 1 ELSE mainTimer
    /\ connTimer' = IF connTimer > 0 THEN connTimer - 1 ELSE connTimer
    /\ UNCHANGED <<mainPc, observed, shown, cycleResult, failedStage, sleeps, fetchVars,
                   tailVars, fnVars, connPc, started, netVars, staState>>

(***************************************************************************)
(* The cycle.                                                              *)
(***************************************************************************)
MainStep ==
    \/ MainInit
    \/ MainLinkUp
    \/ MainLinkTimeout
    \/ MainIpUp
    \/ MainIpTimeout
    \/ ApiResolveOk
    \/ ApiResolveErr
    \/ ApiResolveTimeout
    \/ ApiConnectOk
    \/ ApiConnectErr
    \/ ApiConnectTimeout
    \/ ApiSendOk
    \/ ApiSendErr
    \/ ApiSendTimeout
    \/ ApiReadChunk
    \/ ApiReadEof
    \/ ApiReadErr
    \/ ApiReceiveTimeout
    \/ FetchFailed
    \/ DecodePayload
    \/ Render
    \/ MainSleep

ConnStep ==
    \/ ConnFirstPoll
    \/ ConnLoopTop
    \/ ConnDisconnected
    \/ ConnAfterDisconnected
    \/ ConnCheckStarted
    \/ ConnStartDone
    \/ ConnConnectDone
    \/ ConnBackoffDone

NetStep ==
    \/ NetLinkChange
    \/ NetDhcpBound

Next ==
    \/ MainStep
    \/ ConnStep
    \/ NetStep
    \/ StaDisconnect
    \/ Tick

Spec == Init /\ [][Next]_vars

\* the executor polls every woken task, and time does not stop
FairSpec ==
    /\ Spec
    /\ WF_vars(MainStep)
    /\ WF_vars(ConnStep)
    /\ WF_vars(NetStep)
    /\ WF_vars(Tick)

(***************************************************************************)
(* The HTTP client: http_get of http.rs, called on a connected stack.      *)
(***************************************************************************)
\* http_get returns to its caller
HttpReturn(result, outcome) ==
    /\ fetchResult' = result
    /\ outcomes' = Append(outcomes, outcome)
    /\ mainPc' = "returned"
    /\ mainTimer' = -1

\* the request is built, then the DNS query is awaited; a request that does
\* not fit its 512 bytes ends the call
HttpBegin ==
    /\ mainPc = "http_get"
    /\ \E fits \in BOOLEAN :
        IF fits
        THEN /\ phases' = <<"resolve">>
             /\ mainPc' = "resolve"
             /\ mainTimer' = RESOLVE_TIMEOUT
             /\ elapsed' = 0
             /\ UNCHANGED fetchResult
        ELSE /\ fetchResult' = "HttpRequestFailed"
             /\ mainPc' = "returned"
             /\ UNCHANGED <<phases, mainTimer, elapsed>>
    /\ UNCHANGED <<observed, shown, cycleResult, failedStage, sleeps, outcomes, buf, resp,
                   rxBytes, reads, tailVars, fnVars, connVars, netVars, staState>>

HttpResolveOk ==
    /\ mainPc = "resolve" /\ ExecutorFree /\ NetReady
    /\ StartPhase("connect")
    /\ UNCHANGED <<observed, shown, cycleResult, failedStage, sleeps, fetchResult,
                   buf, resp, rxBytes, reads, tailVars, fnVars, connVars, netVars, staState>>

HttpResolveErr ==
    /\ mainPc = "resolve" /\ ExecutorFree
    /\ HttpReturn("DnsQueryFailed", "error")
    /\ UNCHANGED <<elapsed, observed, shown, cycleResult, failedStage, sleeps, phases,
                   buf, resp, rxBytes, reads, tailVars, fnVars, connVars, netVars, staState>>

HttpResolveTimeout ==
    /\ mainPc = "resolve" /\ ExecutorFree
    /\ mainTimer = 0
    /\ HttpReturn("RequestTimeout", "timeout")
    /\ UNCHANGED <<elapsed, observed, shown, cycleResult, failedStage, sleeps, phases,
                   buf, resp, rxBytes, reads, tailVars, fnVars, connVars, netVars, staState>>

HttpConnectOk ==
    /\ mainPc = "connect" /\ ExecutorFree /\ NetReady
    /\ StartPhase("send")
    /\ UNCHANGED <<observed, shown, cycleResult, failedStage, sleeps, fetchResult,
                   buf, resp, rxBytes, reads, tailVars, fnVars, connVars, netVars, staState>>

\* HttpConnectErr that tries the connect again instead of returning
HttpConnectErr_Retry ==
    /\ mainPc = "connect" /\ ExecutorFree
    /\ phases' = Append(phases, "connect")
    /\ outcomes' = Append(outcomes, "error")
    /\ mainTimer' = CONNECT_TIMEOUT
    /\ elapsed' = 0
    /\ UNCHANGED <<mainPc, observed, shown, cycleResult, failedStage, sleeps, fetchResult,
                   buf, resp, rxBytes, reads, tailVars, fnVars, connVars, netVars, staState>>

HttpConnectErr ==
    /\ mainPc = "connect" /\ ExecutorFree
    /\ HttpReturn("ConnectionFailed", "error")
    /\ UNCHANGED <<elapsed, observed, shown, cycleResult, failedStage, sleeps, phases,
                   buf, resp, rxBytes, reads, tailVars, fnVars, connVars, netVars, staState>>

HttpConnectTimeout ==
    /\ mainPc = "connect" /\ ExecutorFree
    /\ mainTimer = 0
    /\ HttpReturn("RequestTimeout", "timeout")
    /\ UNCHANGED <<elapsed, observed, shown, cycleResult, failedStage, sleeps, phases,
                   buf, resp, rxBytes, reads, tailVars, fnVars, connVars, netVars, staState>>

HttpSendOk ==
    /\ mainPc = "send" /\ ExecutorFree /\ NetReady
    /\ StartPhase("receive")
    /\ UNCHANGED <<observed, shown, cycleResult, failedStage, sleeps, fetchResult,
                   buf, resp, rxBytes, reads, tailVars, fnVars, connVars, netVars, staState>>

HttpSendErr ==
    /\ mainPc = "send" /\ ExecutorFree
    /\ HttpReturn("HttpRequestFailed", "error")
    /\ UNCHANGED <<elapsed, observed, shown, cycleResult, failedStage, sleeps, phases,
                   buf, resp, rxBytes, reads, tailVars, fnVars, connVars, netVars, staState>>

HttpSendTimeout ==
    /\ mainPc = "send" /\ ExecutorFree
    /\ mainTimer = 0
    /\ HttpReturn("RequestTimeout", "timeout")
    /\ UNCHANGED <<elapsed, observed, shown, cycleResult, failedStage, sleeps, phases,
                   buf, resp, rxBytes, reads, tailVars, fnVars, connVars, netVars, staState>>

\* HttpReadChunk with a deadline per read: every chunk starts the 10 s anew
HttpReadChunk_DeadlinePerRead ==
    /\ mainPc = "receive" /\ ExecutorFree /\ NetReady
    /\ reads < MaxChunks
    /\ \E chunk \in Chunks(WireByte) :
        /\ resp' = resp \o chunk
        /\ rxBytes' = rxBytes \o chunk
    /\ reads' = reads + 1
    /\ mainTimer' = RESPONSE_TIMEOUT
    /\ UNCHANGED <<mainPc, elapsed, observed, shown, cycleResult, failedStage, sleeps,
                   phases, fetchResult, outcomes, buf, tailVars, fnVars, connVars, netVars,
                   staState>>

\* Ok(n), n > 0: resp.extend_from_slice(&tmp[..n]), then the next read
HttpReadChunk ==
    /\ mainPc = "receive" /\ ExecutorFree /\ NetReady
    /\ reads < MaxChunks
    /\ \E chunk \in Chunks(WireByte) :
        /\ resp' = resp \o chunk
        /\ rxBytes' = rxBytes \o chunk
    /\ reads' = reads + 1
    /\ UNCHANGED <<mainVars, phases, fetchResult, outcomes, buf, tailVars, fnVars, connVars,
                   netVars, staState>>

\* Ok(0): the peer closed, Ok(resp) is returned
HttpReadEof ==
    /\ mainPc = "receive" /\ ExecutorFree /\ NetReady
    /\ HttpReturn("Ok", "ok")
    /\ UNCHANGED <<elapsed, observed, shown, cycleResult, failedStage, sleeps, phases,
                   buf, resp, rxBytes, reads, tailVars, fnVars, connVars, netVars, staState>>

HttpReadErr ==
    /\ mainPc = "receive" /\ ExecutorFree
    /\ HttpReturn("SocketReadError", "error")
    /\ UNCHANGED <<elapsed, observed, shown, cycleResult, failedStage, sleeps, phases,
                   buf, resp, rxBytes, reads, tailVars, fnVars, connVars, netVars, staState>>

HttpReceiveTimeout ==
    /\ mainPc = "receive" /\ ExecutorFree
    /\ mainTimer = 0
    /\ HttpReturn("RequestTimeout", "timeout")
    /\ UNCHANGED <<elapsed, observed, shown, cycleResult, failedStage, sleeps, phases,
                   buf, resp, rxBytes, reads, tailVars, fnVars, connVars, netVars, staState>>

HttpStep ==
    \/ HttpBegin
    \/ HttpResolveOk
    \/ HttpResolveErr
    \/ HttpResolveTimeout
    \/ HttpConnectOk
    \/ HttpConnectErr
    \/ HttpConnectTimeout
    \/ HttpSendOk
    \/ HttpSendErr
    \/ HttpSendTimeout
    \/ HttpReadChunk
    \/ HttpReadEof
    \/ HttpReadErr
    \/ HttpReceiveTimeout

\* http_get is called with the link up and an address assigned
InitHttp ==
    /\ InitCommon
    /\ arg = NoArg
    /\ mainPc = "http_get"
    /\ buf = <<>>
    /\ connPc = "idle"
    /\ staState = "Connected"
    /\ started = TRUE
    /\ linkUp = TRUE
    /\ hasIp = TRUE
    /\ netPc = "running"

NextHttp ==
    \/ HttpStep
    \/ Tick

SpecHttp == InitHttp /\ [][NextHttp]_vars

(***************************************************************************)
(* fetch_weather_data_with of api.rs called on a connected stack, with the *)
(* configured location and with others.                                    *)
(***************************************************************************)
\* the buffers are laid out and the DNS query is awaited
ApiBegin ==
    /\ mainPc = "fetch_call"
    /\ buf' = ZeroBuf
    /\ phases' = <<"resolve">>
    /\ mainPc' = "resolve"
    /\ mainTimer' = RESOLVE_TIMEOUT
    /\ elapsed' = 0
    /\ UNCHANGED <<observed, shown, cycleResult, failedStage, sleeps, fetchResult, outcomes,
                   resp, rxBytes, reads, tailVars, fnVars, connVars, netVars, staState>>

ApiStep ==
    \/ ApiBegin
    \/ ApiResolveOk
    \/ ApiResolveErr
    \/ ApiResolveTimeout
    \/ ApiConnectOk
    \/ ApiConnectErr
    \/ ApiConnectTimeout
    \/ ApiSendOk
    \/ ApiSendErr
    \/ ApiSendTimeout
    \/ ApiReadChunk
    \/ ApiReadEof
    \/ ApiReadErr
    \/ ApiReceiveTimeout

InitApi ==
    /\ InitCommon
    /\ arg \in ApiArgs
    /\ mainPc = "fetch_call"
    /\ buf = <<>>
    /\ connPc = "idle"
    /\ staState = "Connected"
    /\ started = TRUE
    /\ linkUp = TRUE
    /\ hasIp = TRUE
    /\ netPc = "running"

NextApi ==
    \/ ApiStep
    \/ Tick

SpecApi == InitApi /\ [][NextApi]_vars

(***************************************************************************)
(* extract_json_payload applied to every buffer of at most MaxLen bytes.   *)
(***************************************************************************)
ExtractCall ==
    /\ mainPc = "extract"
    /\ payload' = extract_json_payload(buf)
    /\ mainPc' = "extracted"
    /\ UNCHANGED <<mainTimer, elapsed, observed, shown, cycleResult, failedStage, sleeps,
                   fetchVars, doc, forecast, drawn, fnVars, connVars, netVars, staState>>

InitExtract ==
    /\ InitCommon
    /\ arg = NoArg
    /\ mainPc = "extract"
    /\ buf \in SeqsUpTo(Byte, MaxLen)
    /\ connPc = "idle"
    /\ staState = "Disconnected"
    /\ started = FALSE
    /\ linkUp = FALSE
    /\ hasIp = FALSE
    /\ netPc = "idle"

NextExtract == ExtractCall

SpecExtract == InitExtract /\ [][NextExtract]_vars

(***************************************************************************)
(* The helper functions of graphics.rs, time.rs and http.rs, each called   *)
(* once on an argument drawn from its argument set.                        *)
(***************************************************************************)
IconIndexArgs ==
    [fn : {"weather_code_to_icon_index"},
     code : (-MaxCode..MaxCode) \cup {I32_MIN, I32_MAX}]

WindDirArgs ==
    [fn : {"wind_dir_text"},
     direction : (-MaxDir..MaxDir) \cup {I32_MIN, I32_MAX}]

\* years tried: the ends, century and leap years, and BaseYear..BaseYear+YearSpan
Years == {0, 1, 4, 100, 400, 1600, 1900, 2000, 2100, 9999} \cup (BaseYear..(BaseYear + YearSpan))

\* texts that are no "YYYY-MM-DD"
MalformedDates ==
    {<<"2", "0", "2", "4", "/", "0", "6", "/", "0", "1">>,
     <<"2", "0", "2", "4", "-", "0", "6", "-", "0", "1", "T", "0", "6", ":", "0", "0">>,
     <<"+", "0", "2", "4", "-", "+", "6", "-", "+", "1">>,
     <<"2", "0", "2", "4", "-", "6", "-", "1">>,
     <<>>,
     <<"2", "0", "2", "4", "-", "0", "6">>,
     <<"2", "0", "x", "4", "-", "0", "6", "-", "0", "1">>,
     <<"-", "0", "0", "1", "-", "0", "1", "-", "0", "1">>,
     <<"2", "0", "2", "4", "-", "0", "6", "-", "0", "x">>,
     <<"2", "0", "2", "4", "-", "-", "6", "-", "0", "1">>,
     <<"2", "0", "2", "4", "-", "0", "6", "-", "1", "x">>,
     <<"2", "0", "2", "4", "x", "1", "1", "y", "1", "1">>,
     <<"+", "0", "0", "0", "-", "0", "2", "-", "2", "9">>}

FormatDateArgs ==
    {[fn |-> "format_date", iso |-> Iso(y, m, d)] : y \in Years, m \in 0..13, d \in 0..32}
        \cup {[fn |-> "format_date", iso |-> t] : t \in MalformedDates}

SakamotoArgs ==
    [fn : {"day_of_week_sakamoto"}, year : Years, month : 0..13, day : 1..31]

\* bytes the longer components are made of: space % A ~
EncAlphabet == {32, 37, 65, 126}

\* every ASCII byte alone, short texts, a two-byte UTF-8 character, and the
\* texts "%41" and "%%"
Components ==
    {<<b>> : b \in 0..127} \cup SeqsUpTo(EncAlphabet, MaxEncLen)
        \cup {<<195, 169>>, <<37, 52, 49>>, <<37, 37>>}

EncodeArgs == [fn : {"url_encode_component"}, component : Components, N : 0..MaxEncCap]

\* icon sizes tried: the two sheets and sizes that have none
IconSizes == {0, 1, 19, 20, 21, 69, 70, 71, 210}

DrawIconArgs ==
    [fn : {"draw_weather_icon"}, icon_index : 0..MaxIcon, position : {Point(6, 40)},
     size : IconSizes, sinkOk : BOOLEAN]

\* documents of MaxDays + 1 days whose dates and times are not as the feed's
RenderDocs ==
    LET sample == SampleDoc(MaxDays + 1)
    IN  {WithDailyText(sample, "time", 1, <<>>),
         WithDailyText(sample, "time", 1, <<"2", "0", "2", "4", "/", "0", "6", "/", "0", "1">>),
         WithDailyText(sample, "sunrise", 1, <<"0", "5", ":", "3", "2">>),
         WithDailyText(sample, "sunset", 1, Iso(2024, 6, 1) \o <<" ", "2", "0", ":", "2", "1">>),
         WithDailyText(sample, "time", 2, <<"J", "u", "n", "e", " ", "2", "n", "d", " ", " ">>),
         WithDailyText(sample, "time", 2, <<"2", "0", "2", "4", "/", "0", "6", "/", "0", "2">>),
         WithDailyText(sample, "time", MaxDays + 1, Iso(2024, 13, 2))}

\* documents of MaxDays + 1 days that decode and whose arrays are not of one
\* length: no day at all, one array shorter than the dates, no unit label
ShapeDocs ==
    LET sample == SampleDoc(MaxDays + 1)
    IN  {SampleDoc(0),
         [sample EXCEPT !.daily_units.temperature_2m_max = <<>>],
         [sample EXCEPT !.daily.weather_code = SampleDoc(1).daily.weather_code],
         [sample EXCEPT !.daily.temperature_2m_min = SampleDoc(MaxDays).daily.temperature_2m_min],
         [sample EXCEPT !.daily.temperature_2m_max = SampleDoc(1).daily.temperature_2m_max],
         [sample EXCEPT !.daily.sunset = <<>>],
         [sample EXCEPT !.daily.wind_direction_10m_dominant = <<>>],
         [sample EXCEPT !.daily.time = SampleDoc(MaxDays).daily.time]}

\* documents of MaxDays + 1 days with other numbers and labels: halves and
\* negative temperatures, a latitude of 1000000.0, a temperature of
\* 10000000.0, a wind unit label of BUF_LEN bytes, an 8-byte temperature
ValueDocs ==
    LET sample == SampleDoc(MaxDays + 1)
        days == 1..(MaxDays + 1)
    IN  {[sample EXCEPT !.daily.temperature_2m_max =
                            [i \in days |-> <<725, 735, -4, 5, 15, -15, 999, 0>>[i]],
                        !.daily.temperature_2m_min =
                            [i \in days |-> <<-37, -5, -25, -996, 4, -6, 1, -1>>[i]]],
         [sample EXCEPT !.latitude = 10000000],
         [sample EXCEPT !.daily.temperature_2m_max = [i \in days |-> 100000000]],
         [sample EXCEPT !.daily.temperature_2m_min =
                            [i \in days |-> IF i = 1 THEN 504 ELSE -100000000]],
         [sample EXCEPT !.daily.temperature_2m_max = [i \in days |-> 99999990]],
         [sample EXCEPT !.daily_units.wind_speed_10m_max = Pad(0, BUF_LEN)],
         [sample EXCEPT !.daily_units.wind_speed_10m_max = Pad(0, 16)]}

\* the forecasts rendered: those of the documents that decode
Forecasts ==
    LET docs == Docs \cup RenderDocs \cup ShapeDocs \cup ValueDocs
                    \cup {SampleDoc(n) : n \in 1..MAX_DAYS}
    IN  {try_from(d).value : d \in {e \in docs : try_from(e).tag = "Ok"}}

\* each of them with every operation of the display failing in turn
RenderArgs ==
    UNION {[fn : {"graphical_display"}, weather_data : {fc},
            failAt : 0..Len(RenderPlan(fc))] : fc \in Forecasts}

\* the length of the shortest request tried
MinRequest == Len(build_http_request("Get", <<47>>, <<104>>, None, None, 512).value)

\* capacities around the length of the shortest request, and those of http_get
RequestCaps == {0, 512} \cup (MinRequest..(MinRequest + MaxReqSlack))

\* targets "/" and "/a", host "h", headers "A:b\r\n", bodies "" and "x"
BuildRequestArgs ==
    [fn : {"build_http_request"}, method : DOMAIN as_str, target : {<<47>>, <<47, 97>>},
     host : {<<104>>}, headers : {None, Some(<<>>), Some(<<65, 58, 98, 13, 10>>)},
     body : {None, Some(<<>>), Some(<<120>>)}, N : RequestCaps]

FnArgs ==
    BuildRequestArgs \cup IconIndexArgs \cup WindDirArgs \cup FormatDateArgs \cup SakamotoArgs
        \cup EncodeArgs \cup DrawIconArgs \cup RenderArgs

\* the function returns to its caller
FnReturn(value) ==
    /\ ret' = value
    /\ mainPc' = "called"
    /\ UNCHANGED <<mainTimer, elapsed, observed, shown, cycleResult, failedStage, sleeps,
                   fetchVars, tailVars, arg, connVars, netVars, staState>>

IconIndexCall ==
    /\ mainPc = "call"
    /\ arg.fn = "weather_code_to_icon_index"
    /\ FnReturn([tag |-> "value", value |-> weather_code_to_icon_index(arg.code)])

WindDirCall ==
    /\ mainPc = "call"
    /\ arg.fn = "wind_dir_text"
    /\ FnReturn([tag |-> "value", value |-> wind_dir_text(arg.direction)])

FormatDateCall ==
    /\ mainPc = "call"
    /\ arg.fn = "format_date"
    /\ FnReturn(format_date(arg.iso))

SakamotoCall ==
    /\ mainPc = "call"
    /\ arg.fn = "day_of_week_sakamoto"
    /\ FnReturn(day_of_week_sakamoto(arg.year, arg.month, arg.day))

EncodeCall ==
    /\ mainPc = "call"
    /\ arg.fn = "url_encode_component"
    /\ FnReturn(url_encode_component(arg.component, arg.N))

DrawIconCall ==
    /\ mainPc = "call"
    /\ arg.fn = "draw_weather_icon"
    /\ FnReturn(draw_weather_icon(arg.icon_index, arg.position, arg.size, arg.sinkOk))

BuildRequestCall ==
    /\ mainPc = "call"
    /\ arg.fn = "build_http_request"
    /\ FnReturn(build_http_request(arg.method, arg.target, arg.host, arg.headers, arg.body,
                                  arg.N))

GraphicalDisplayCall ==
    /\ mainPc = "call"
    /\ arg.fn = "graphical_display"
    /\ FnReturn(graphical_display(arg.weather_data, arg.failAt))

InitFn ==
    /\ InitCommon
    /\ mainPc = "call"
    /\ arg \in FnArgs
    /\ buf = <<>>
    /\ connPc = "idle"
    /\ staState = "Disconnected"
    /\ started = FALSE
    /\ linkUp = FALSE
    /\ hasIp = FALSE
    /\ netPc = "idle"

NextFn ==
    \/ IconIndexCall
    \/ WindDirCall
    \/ FormatDateCall
    \/ SakamotoCall
    \/ EncodeCall
    \/ DrawIconCall
    \/ GraphicalDisplayCall
    \/ BuildRequestCall

SpecFn == InitFn /\ [][NextFn]_vars

(***************************************************************************)
(* Properties.                                                             *)
(***************************************************************************)
AllPhases == <<"resolve", "connect", "send", "receive">>

IsPrefix(s, t) == Len(s) <= Len(t) /\ \A i \in 1..Len(s) : s[i] = t[i]

Range(s) == {s[i] : i \in 1..Len(s)}

\* the phase that failed and how, once the fetch has returned an error
FailedPhase ==
    IF outcomes # <<>> /\ outcomes[Len(outcomes)] # "ok"
    THEN phases[Len(outcomes)] ELSE "none"

FailKind == IF outcomes # <<>> THEN outcomes[Len(outcomes)] ELSE "none"

\* C1: a cycle in which fetch, decode or render failed returns an error, has
\* shown exactly one message and sleeps for the short interval.
C1_FailureReported ==
    (mainPc = "asleep" /\ failedStage # "none") =>
        /\ cycleResult \notin {"none", "Ok"}
        /\ Len(shown) = 1
        /\ sleeps = <<SLEEP_ON_ERROR_SECS>>

\* C2: every cycle eventually enters deep sleep, exactly once, for 86400 s
\* after Ok and for 300 s otherwise, and nothing happens after that.
C2_AlwaysSleepsOnce ==
    /\ <>(mainPc = "asleep")
    /\ [](mainPc = "asleep" =>
            sleeps = <<IF cycleResult = "Ok" THEN SLEEP_ON_SUCCESS_SECS
                       ELSE SLEEP_ON_ERROR_SECS>>)
    /\ [][mainPc # "asleep"]_vars

C4_DnsTimeout ==
    (fetchResult # "none" /\ FailedPhase = "resolve" /\ FailKind = "timeout") =>
        /\ fetchResult = "RequestTimeout"
        /\ elapsed <= RESOLVE_TIMEOUT
        /\ phases = <<"resolve">>

\* C5: the phases start in the order resolve, connect, send, receive, each at
\* most once and only after every earlier one ended well; the fetch returns
\* at the first phase that fails or times out and starts nothing after it.
C5_Order ==
    /\ IsPrefix(phases, AllPhases)
    /\ Len(outcomes) \in {Len(phases) - 1, Len(phases)}
    /\ \A i \in 1..(Len(phases) - 1) : outcomes[i] = "ok"
    /\ (phases # <<>> /\ Len(outcomes) = Len(phases)) <=> (phases # <<>> /\ mainPc = "returned")
    /\ mainPc \in Range(AllPhases) => phases[Len(phases)] = mainPc
    /\ fetchResult = "Ok" => phases = AllPhases

C5_PhaseOrder ==
    /\ []C5_Order
    /\ [][fetchResult # "none" => UNCHANGED <<phases, outcomes, fetchResult>>]_vars

C5_Witness ==
    /\ mainPc = "returned"
    /\ phases = <<"resolve", "connect", "send">>
    /\ outcomes = <<"ok", "ok", "timeout">>

\* C6: the error of a failed fetch is the timeout error when the phase timed
\* out, and otherwise the failure error of the phase that failed.
ClaimedError(phase, kind) ==
    IF kind = "timeout" THEN "RequestTimeout"
    ELSE CASE phase = "resolve" -> "DnsQueryFailed"
           [] phase = "connect" -> "ConnectionFailed"
           [] phase = "send" -> "HttpRequestFailed"
           [] phase = "receive" -> "SocketReadError"

C6_ErrorByPhaseAndCause ==
    (fetchResult \notin {"none", "Ok"} /\ FailedPhase # "none") =>
        fetchResult = ClaimedError(FailedPhase, FailKind)

\* C7: the bytes of a successful fetch are the bytes of the reads, in read
\* order, none dropped, repeated or overwritten (zero padding after them is
\* let pass).
C7_BytesAreConcatenation ==
    fetchResult = "Ok" =>
        /\ Len(rxBytes) <= Len(buf)
        /\ \A i \in 1..Len(buf) : buf[i] = IF i <= Len(rxBytes) THEN rxBytes[i] ELSE NUL

\* C8: the receive phase never lasts longer than 10 s, however many chunks
\* arrive; it ends with the timeout error exactly at 10 s, and a read error
\* before that ends it with the read error.
C8_ReceiveDeadline ==
    /\ mainPc = "receive" => elapsed <= RESPONSE_TIMEOUT
    /\ (mainPc = "returned" /\ FailedPhase = "receive") =>
          /\ elapsed <= RESPONSE_TIMEOUT
          /\ FailKind = "timeout" => (fetchResult = "RequestTimeout" /\ elapsed = RESPONSE_TIMEOUT)
          /\ FailKind = "error" => fetchResult = "SocketReadError"

C8_Witness ==
    /\ mainPc = "returned"
    /\ fetchResult = "RequestTimeout"
    /\ FailedPhase = "receive"
    /\ reads = MaxChunks
    /\ elapsed = RESPONSE_TIMEOUT

\* C9: extract never aborts, whatever the buffer holds.
C9_ExtractNeverFails == payload.tag # "panic"

\* C10: extract returns raw[start..end], start just after the first CRLFCRLF
\* or else at the first '{' or '[', end at the first NUL or else at the end.
ClaimedStart(raw) ==
    IF \E i \in 1..(Len(raw) - 3) : SubSeq(raw, i, i + 3) = <<CR, LF, CR, LF>>
    THEN 3 + SetMin({i \in 1..(Len(raw) - 3) : SubSeq(raw, i, i + 3) = <<CR, LF, CR, LF>>})
    ELSE SetMin({i \in 1..Len(raw) : raw[i] \in {LBRACE, LBRACKET}}) - 1

ClaimedEnd(raw) ==
    IF \E i \in 1..Len(raw) : raw[i] = NUL
    THEN SetMin({i \in 1..Len(raw) : raw[i] = NUL}) - 1
    ELSE Len(raw)

HasClaimedStart(raw) ==
    \/ \E i \in 1..(Len(raw) - 3) : SubSeq(raw, i, i + 3) = <<CR, LF, CR, LF>>
    \/ \E i \in 1..Len(raw) : raw[i] \in {LBRACE, LBRACKET}

C10_ExtractSlice ==
    (mainPc = "extracted" /\ HasClaimedStart(buf)) =>
        /\ payload.tag = "slice"
        /\ payload.bytes = SubSeq(buf, ClaimedStart(buf) + 1, ClaimedEnd(buf))

\* the call of the named helper function has returned
Called(fn) == mainPc = "called" /\ arg.fn = fn

\* C15: weather_code_to_icon_index returns, for every i32 code, the index of
\* the icon table: 0,1,2,3 for 0,1,2,3; 4 for 61,63,65; 5 for 51,53,55,80,81,
\* 82; 6 for 95,96,99; 7 for 56,57,66,67,71,73,75,77,85,86; 8 for 45,48; and
\* 0 for every other code.
IconTable ==
    << <<{0}, 0>>, <<{1}, 1>>, <<{2}, 2>>, <<{3}, 3>>, <<{61, 63, 65}, 4>>,
       <<{51, 53, 55, 80, 81, 82}, 5>>, <<{95, 96, 99}, 6>>,
       <<{56, 57, 66, 67, 71, 73, 75, 77, 85, 86}, 7>>, <<{45, 48}, 8>> >>

C15_IconTotal ==
    Called("weather_code_to_icon_index") =>
        /\ ret.tag = "value"
        /\ ret.value \in 0..8
        /\ \A k \in 1..Len(IconTable) :
              arg.code \in IconTable[k][1] => ret.value = IconTable[k][2]
        /\ (\A k \in 1..Len(IconTable) : arg.code \notin IconTable[k][1]) => ret.value = 0

C15_Witness ==
    /\ Called("weather_code_to_icon_index")
    /\ arg.code = 77
    /\ ret.value = 7

\* C16: wind_dir_text maps 0..359 by sectors with inclusive start, 0..22 N,
\* 22..67 NE, 67..122 E, 122..157 SE, 157..202 S, 202..247 SW, 247..293 W,
\* 293..337 NW, 337..360 N.
SectorStarts == <<0, 22, 67, 122, 157, 202, 247, 293, 337, 360>>

SectorNames == <<"N", "NE", "E", "SE", "S", "SW", "W", "NW", "N">>

C16_WindSectors ==
    (Called("wind_dir_text") /\ arg.direction \in 0..359) =>
        \A k \in 1..Len(SectorNames) :
            (SectorStarts[k] <= arg.direction /\ arg.direction < SectorStarts[k + 1])
                => ret.value = SectorNames[k]

C16_Witness ==
    /\ Called("wind_dir_text")
    /\ arg.direction = 22
    /\ ret.value = "NE"

\* the weekday by Zeller's congruence: 0 Saturday, 1 Sunday, ... 6 Friday
Zeller(y, m, d) ==
    LET mm == IF m < 3 THEN m + 12 ELSE m
        yy == IF m < 3 THEN y - 1 ELSE y
        K == yy % 100
        J == yy \div 100
    IN  (d + ((13 * (mm + 1)) \div 5) + K + (K \div 4) + (J \div 4) + 5 * J) % 7

ZellerNames ==
    <<"Saturday", "Sunday", "Monday", "Tuesday", "Wednesday", "Thursday", "Friday">>

ZellerAbbrevs == <<"SAT", "SUN", "MON", "TUE", "WED", "THU", "FRI">>

MonthLengths == <<31, 28, 31, 30, 31, 30, 31, 31, 30, 31, 30, 31>>

\* (y, m, d) is a date of the calendar
IsCalendarDate(y, m, d) ==
    /\ m \in 1..12
    /\ d >= 1
    /\ d <= IF m = 2 /\ (y % 400 = 0 \/ (y % 4 = 0 /\ y % 100 # 0)) THEN 29
            ELSE MonthLengths[m]

\* the abbreviation names the weekday of the date, and the weekday format_date prints
SakamotoAgrees ==
    /\ ret.tag = "value"
    /\ ret.value = ZellerAbbrevs[Zeller(arg.year, arg.month, arg.day) + 1]
    /\ LET printed == format_date(Iso(arg.year, arg.month, arg.day))
       IN  /\ printed.tag = "Some"
           /\ \E k \in 1..7 : printed.value[1] = ZellerNames[k] /\ ret.value = ZellerAbbrevs[k]

\* C17 as stated: for every date of the calendar format_date accepts (the
\* year 0 among them) day_of_week_sakamoto names the true weekday, the one
\* format_date prints.
C17_SakamotoAllDates ==
    (Called("day_of_week_sakamoto") /\ IsCalendarDate(arg.year, arg.month, arg.day))
        => SakamotoAgrees

\* C17, amended: for every date of the calendar from the year 1 on
\* day_of_week_sakamoto names the true weekday, the one format_date prints.
C17_SakamotoFromYear1 ==
    (Called("day_of_week_sakamoto") /\ IsCalendarDate(arg.year, arg.month, arg.day)
        /\ arg.year >= 1)
        => SakamotoAgrees

C17_Witness ==
    /\ Called("day_of_week_sakamoto")
    /\ arg.year = 2000 /\ arg.month = 1 /\ arg.day = 1
    /\ ret.value = "SAT"

\* the suffix of a day of the month
ClaimedSuffix(d) ==
    IF d \in {11, 12, 13} THEN "th"
    ELSE IF d % 10 = 1 THEN "st"
    ELSE IF d % 10 = 2 THEN "nd"
    ELSE IF d % 10 = 3 THEN "rd"
    ELSE "th"

\* "<Weekday> <Month> <Day><suffix>, <Year>"
ClaimedDateText(y, m, d) ==
    <<ZellerNames[Zeller(y, m, d) + 1], " ", MonthNames[m], " ">>
        \o IntText(d) \o <<ClaimedSuffix(d), ",", " ">> \o IntText(y)

\* the text is YYYY-MM-DD and names a date of the calendar
ValidIso(iso) ==
    /\ Len(iso) = 10
    /\ iso[5] = "-" /\ iso[8] = "-"
    /\ \A i \in {1, 2, 3, 4, 6, 7, 9, 10} : IsDigit(iso[i])
    /\ IsCalendarDate(DigitsValue(SubSeq(iso, 1, 4)), DigitsValue(SubSeq(iso, 6, 7)),
                      DigitsValue(SubSeq(iso, 9, 10)))

\* a field of digits, after '+' (or '-' when signed) if any
IsField(f, signed) ==
    \/ AllDigits(f)
    \/ /\ f # <<>>
       /\ f[1] = "+" \/ (signed /\ f[1] = "-")
       /\ AllDigits(Tail(f))

FieldValue(f) ==
    IF f[1] = "-" THEN 0 - DigitsValue(Tail(f))
    ELSE IF f[1] = "+" THEN DigitsValue(Tail(f))
    ELSE DigitsValue(f)

YearField(iso) == SubSeq(iso, 1, 4)

MonthField(iso) == SubSeq(iso, 6, 7)

DayField(iso) == SubSeq(iso, 9, 10)

\* bytes 0..4, 5..7 and 8..10 read as year, month and day of a date
FieldsNameDate(iso) ==
    /\ Len(iso) >= 10
    /\ IsField(YearField(iso), TRUE)
    /\ IsField(MonthField(iso), FALSE)
    /\ IsField(DayField(iso), FALSE)
    /\ IsCalendarDate(FieldValue(YearField(iso)), FieldValue(MonthField(iso)),
                      FieldValue(DayField(iso)))

FormatsValidIso ==
    ValidIso(arg.iso) =>
        /\ ret = Some(ClaimedDateText(DigitsValue(YearField(arg.iso)),
                                      DigitsValue(MonthField(arg.iso)),
                                      DigitsValue(DayField(arg.iso))))
        /\ ret.value[5] # "0"

\* C18 as stated: a valid ISO date gives "<Weekday> <Month> <Day><suffix>,
\* <Year>", the day without leading zero, the suffix th for 11, 12, 13 and
\* else by the last digit; every other input gives no value.
C18_FormatDateStrict ==
    Called("format_date") =>
        /\ FormatsValidIso
        /\ ~ValidIso(arg.iso) => ret = None

\* C18, amended: a valid ISO date gives that text; an input gives no value
\* when its bytes 0..4, 5..7, 8..10 do not read as year, month and day of a
\* date, and the text of that date when they do, whatever bytes 4, 7 and
\* those after 10 are.
C18_FormatDateFields ==
    Called("format_date") =>
        /\ FormatsValidIso
        /\ ~FieldsNameDate(arg.iso) => ret = None
        /\ FieldsNameDate(arg.iso) =>
              ret = Some(ClaimedDateText(FieldValue(YearField(arg.iso)),
                                         FieldValue(MonthField(arg.iso)),
                                         FieldValue(DayField(arg.iso))))

C18_Witness ==
    /\ Called("format_date")
    /\ arg.iso = Iso(2024, 6, 11)
    /\ ret = Some(<<"Tuesday", " ", "June", " ", "1", "1", "th", ",", " ", "2", "0", "2", "4">>)

\* the unreserved bytes: ASCII letters, digits, - . _ ~
Unreserved == (65..90) \cup (97..122) \cup (48..57) \cup {45, 46, 95, 126}

RECURSIVE ClaimedEncoding(_)
ClaimedEncoding(input) ==
    IF input = <<>> THEN <<>>
    ELSE (IF input[1] \in Unreserved THEN <<input[1]>>
          ELSE <<PERCENT, HexDigit(input[1] \div 16), HexDigit(input[1] % 16)>>)
         \o ClaimedEncoding(Tail(input))

\* C20: the encoder escapes a byte if and only if it is outside the
\* unreserved set: a byte outside it becomes '%' and two uppercase hex digits,
\* a byte inside it, '~' too, is copied.
C20_EscapesExactlyReserved ==
    (Called("url_encode_component") /\ ret.tag = "Ok") =>
        ret.value = ClaimedEncoding(arg.component)

\* C19: with size 20 or 70 draw_weather_icon blits the size x size area at
\* (col*size, row*size), row = index / 3, col = index % 3, which for index
\* 0..8 lies inside the 3*size x 3*size sheet; with another size it draws
\* nothing and returns success.
C19_IconBlit ==
    Called("draw_weather_icon") =>
        /\ arg.size \notin {20, 70} => ret = [result |-> "Ok", ops |-> <<>>]
        /\ (arg.size \in {20, 70} /\ arg.icon_index \in 0..8 /\ arg.sinkOk) =>
              /\ ret.result = "Ok"
              /\ Len(ret.ops) = 1
              /\ ret.ops[1].sheet = 3 * arg.size
              /\ ret.ops[1].at = arg.position
              /\ ret.ops[1].area =
                    [x |-> (arg.icon_index % 3) * arg.size,
                     y |-> (arg.icon_index \div 3) * arg.size,
                     w |-> arg.size, h |-> arg.size]
              /\ ret.ops[1].area.x + arg.size <= 3 * arg.size
              /\ ret.ops[1].area.y + arg.size <= 3 * arg.size

C19_Witness ==
    /\ Called("draw_weather_icon")
    /\ arg.size = 70 /\ arg.icon_index = 5 /\ arg.sinkOk
    /\ ret.ops[1].area = [x |-> 140, y |-> 70, w |-> 70, h |-> 70]

\* the positions of seq whose operation belongs to step
StepOps(seq, step) == SelectSeq(seq, LAMBDA o : o.step = step)

\* C13: graphical_display issues its draw steps in one fixed order
\* (background, today's 70px icon, date, latitude/longitude, high/low, wind,
\* sunrise/sunset, future days); the transfer to the display comes last and
\* only after all eight steps ran to their end; when an operation reports a
\* sink error render returns DisplayError and nothing is issued after it,
\* neither a later step nor the transfer.
DrawOrder ==
    <<"background", "today_icon", "today_date", "lat_long", "high_low", "wind",
      "sunrise_sunset", "future_days">>

OrderOf(step) ==
    IF step \in {"epd_new", "epd_begin"} THEN 0
    ELSE IF step = "update_display" THEN Len(DrawOrder) + 1
    ELSE CHOOSE k \in 1..Len(DrawOrder) : DrawOrder[k] = step

\* how many operations a step issues when it runs to its end
StepSize(step, days) ==
    IF step \in {"high_low", "sunrise_sunset"} THEN 2
    ELSE IF step = "future_days" THEN 4 * (days - 1)
    ELSE 1

C13_FixedOrder ==
    Called("graphical_display") =>
        LET done == ret.done
            days == Len(arg.weather_data.daily.time)
            transferred == \E i \in 1..Len(done) : done[i].step = "update_display"
        IN  /\ \A i, j \in 1..Len(done) :
                  i < j => OrderOf(done[i].step) <= OrderOf(done[j].step)
            /\ \A i \in 1..Len(done) :
                  done[i].step = "today_icon" => done[i].area.w = 70 /\ done[i].area.h = 70
            /\ transferred =>
                  /\ done[Len(done)].step = "update_display"
                  /\ \A k \in 1..Len(DrawOrder) :
                        Len(StepOps(done, DrawOrder[k])) = StepSize(DrawOrder[k], days)
            /\ ret.result = "Ok" => transferred
            /\ ret.result = "DisplayError" =>
                  /\ arg.failAt >= 1
                  /\ Len(done) = arg.failAt - 1
                  /\ ~transferred

\* a sink error in the wind step: the steps up to high/low were drawn, nothing
\* after them
C13_Witness ==
    /\ Called("graphical_display")
    /\ ret.result = "DisplayError"
    /\ Len(ret.done) >= 1
    /\ ret.done[Len(ret.done)].step = "high_low"
    /\ Len(StepOps(ret.done, "high_low")) = 2
    /\ Len(arg.weather_data.daily.time) = 3

\* C14: with n days (1 <= n <= 7) a render that ends well draws n-1 entries
\* of the future-days strip, for the indices 1..n-1 in increasing order and
\* none for index 0; the entry of index i is anchored at (191, 15+18*(i-1))
\* and shows the weather code and the min and max temperature of index i.
FutureEntryClaimed(weather_data, i) ==
    LET daily == weather_data.daily
        unit == weather_data.daily_units.temperature_2m_max
        y == 15 + 18 * (i - 1)
        icon == weather_code_to_icon_index(daily.weather_code[i + 1])
    IN  [icon_at |-> Point(191 + 20, y),
         icon_area |-> [x |-> (icon % 3) * 20, y |-> (icon \div 3) * 20, w |-> 20, h |-> 20],
         min_text |-> FixedText0(daily.temperature_2m_min[i + 1]) \o <<unit[Len(unit)]>>,
         max_text |-> FixedText0(daily.temperature_2m_max[i + 1]) \o <<unit[Len(unit)]>>,
         dow_y |-> y + 5]

C14_FutureStrip ==
    (Called("graphical_display") /\ ret.result = "Ok") =>
        LET n == Len(arg.weather_data.daily.time)
            strip == StepOps(ret.done, "future_days")
        IN  /\ n \in 1..7
            /\ Len(strip) = 4 * (n - 1)
            /\ \A i \in 1..(n - 1) :
                  LET dow == strip[4 * (i - 1) + 1]
                      icon == strip[4 * (i - 1) + 2]
                      min == strip[4 * (i - 1) + 3]
                      max == strip[4 * (i - 1) + 4]
                      claimed == FutureEntryClaimed(arg.weather_data, i)
                  IN  /\ dow.what = "day_of_week" /\ dow.at = Point(191, claimed.dow_y)
                      /\ icon.what = "icon" /\ icon.at = claimed.icon_at
                      /\ icon.area = claimed.icon_area
                      /\ min.what = "min" /\ min.text = claimed.min_text
                      /\ min.at.y = claimed.dow_y
                      /\ max.what = "max" /\ max.text = claimed.max_text
                      /\ max.at.y = claimed.dow_y

\* three days: two entries, at 15 and 33
C14_Witness ==
    /\ Called("graphical_display")
    /\ ret.result = "Ok"
    /\ Len(arg.weather_data.daily.time) = 3
    /\ LET strip == StepOps(ret.done, "future_days")
       IN  /\ Len(strip) = 8
           /\ strip[2].at.y = 15
           /\ strip[6].at.y = 33

\* C12: render does not abort on a malformed date or time string: for a
\* forecast whose arrays have one length and with a sink that takes every
\* operation it returns Ok and the transfer is made.
SameLengths(weather_data) ==
    LET daily == weather_data.daily
    IN  /\ Len(daily.time) >= 1
        /\ \A f \in DOMAIN daily : Len(daily[f]) = Len(daily.time)
        /\ weather_data.daily_units.temperature_2m_max # <<>>

C12_RenderOmitsMalformed ==
    (Called("graphical_display") /\ arg.failAt = 0 /\ SameLengths(arg.weather_data)) =>
        /\ ret.result = "Ok"
        /\ ret.done # <<>>
        /\ ret.done[Len(ret.done)].step = "update_display"

\* C11: a document with a daily array of more than 7 elements, a text over
\* its capacity (32 bytes, 8 for timezone_abbreviation), a required field
\* left out or a value of another type gives no forecast, the cycle ends
\* with JsonParseFailed and nothing is drawn; a forecast that exists holds
\* the document's values whole.
OverCapacity(d) ==
    \/ \E f \in DOMAIN d.daily : Len(d.daily[f]) > 7
    \/ \E f \in {"time", "sunrise", "sunset"} :
          \E i \in 1..Len(d.daily[f]) : Len(d.daily[f][i]) > 32
    \/ Len(d.timezone) > 32
    \/ Len(d.timezone_abbreviation) > 8
    \/ \E f \in DOMAIN d.daily_units : Len(d.daily_units[f]) > 32

Refused(d) == d.tag # "json" \/ d.missing # {} \/ d.mistyped # {} \/ OverCapacity(d)

C11_DecodeAllOrNothing ==
    doc # NoDoc =>
        /\ Refused(doc) =>
              /\ forecast = NoForecast
              /\ cycleResult = "JsonParseFailed"
              /\ failedStage = "decode"
              /\ drawn = <<>>
              /\ mainPc \in {"result", "asleep"}
        /\ forecast # NoForecast =>
              /\ forecast.daily = doc.daily
              /\ forecast.daily_units = doc.daily_units
              /\ forecast.timezone = doc.timezone
              /\ forecast.timezone_abbreviation = doc.timezone_abbreviation
              /\ forecast.latitude = doc.latitude /\ forecast.longitude = doc.longitude
        /\ ~Refused(doc) => forecast # NoForecast

\* eight weather codes for two days: the cycle ended with the decode error
C11_Witness ==
    /\ doc # NoDoc
    /\ doc.tag = "json"
    /\ Len(doc.daily.weather_code) = 8
    /\ forecast = NoForecast
    /\ cycleResult = "JsonParseFailed"
    /\ mainPc = "asleep"

\* C21: percent-decoding the output of url_encode_component (each %XX
\* replaced by the byte XX) gives back the input, for every input of
\* printable ASCII, '%' and the reserved characters included, that fits.
HexValue(c) ==
    IF c \in 48..57 THEN c - 48
    ELSE IF c \in 65..70 THEN c - 55
    ELSE IF c \in 97..102 THEN c - 87
    ELSE -1

RECURSIVE PercentDecode(_)
PercentDecode(text) ==
    IF text = <<>> THEN <<>>
    ELSE IF /\ text[1] = 37
            /\ Len(text) >= 3
            /\ HexValue(text[2]) >= 0
            /\ HexValue(text[3]) >= 0
         THEN <<16 * HexValue(text[2]) + HexValue(text[3])>>
                  \o PercentDecode(SubSeq(text, 4, Len(text)))
         ELSE <<text[1]>> \o PercentDecode(Tail(text))

PrintableAscii(text) == \A i \in 1..Len(text) : text[i] \in 32..126

C21_EncodeReversible ==
    (Called("url_encode_component") /\ PrintableAscii(arg.component) /\ ret.tag = "Ok") =>
        PercentDecode(ret.value) = arg.component

\* the input "%41" is encoded as "%2541" and decoded back to "%41"
C21_Witness ==
    /\ Called("url_encode_component")
    /\ arg.component = <<37, 52, 49>>
    /\ ret.tag = "Ok"
    /\ ret.value = <<37, 50, 53, 52, 49>>

\* C22: build_http_request returns "<METHOD> <target> HTTP/1.0 CRLF Host:
\* <host> CRLF <headers> CRLF <body> CRLF CRLF" whenever the result fits,
\* absent headers and an absent body standing for the empty text; it starts
\* with the method token and ends with CRLF CRLF.
MethodTokens ==
    [Get |-> <<71, 69, 84>>, Head |-> <<72, 69, 65, 68>>, Post |-> <<80, 79, 83, 84>>, Put |-> <<80, 85, 84>>,
     Delete |-> <<68, 69, 76, 69, 84, 69>>, Patch |-> <<80, 65, 84, 67, 72>>, Connect |-> <<67, 79, 78, 78, 69, 67, 84>>,
     Options |-> <<79, 80, 84, 73, 79, 78, 83>>, Trace |-> <<84, 82, 65, 67, 69>>]

OrEmpty(opt) == IF opt.tag = "Some" THEN opt.value ELSE <<>>

\* "<METHOD> <target> HTTP/1.0 CRLF Host: <host> CRLF <headers>"
RequestHead(a) ==
    MethodTokens[a.method] \o <<32>> \o a.target \o <<32, 72, 84, 84, 80, 47, 49, 46, 48>> \o <<13, 10>>
        \o <<72, 111, 115, 116, 58, 32>> \o a.host \o <<13, 10>> \o OrEmpty(a.headers)

IsPrefixOf(p, s) == Len(p) <= Len(s) /\ SubSeq(s, 1, Len(p)) = p

IsSuffixOf(p, s) == Len(p) <= Len(s) /\ SubSeq(s, Len(s) - Len(p) + 1, Len(s)) = p

C22_OneLayout ==
    (Called("build_http_request") /\ ret.tag = "Ok") =>
        /\ ret.value = RequestHead(arg) \o <<13, 10>> \o OrEmpty(arg.body)
                           \o <<13, 10, 13, 10>>
        /\ IsPrefixOf(MethodTokens[arg.method] \o <<32>>, ret.value)
        /\ IsSuffixOf(<<13, 10, 13, 10>>, ret.value)

\* C22 (amended): the CRLF before the body is written only with a body; an
\* absent body adds nothing between the headers and the closing CRLF CRLF.
C22_LayoutBodyOptional ==
    (Called("build_http_request") /\ ret.tag = "Ok") =>
        /\ ret.value = RequestHead(arg)
                           \o (IF arg.body.tag = "Some" THEN <<13, 10>> \o arg.body.value
                               ELSE <<>>)
                           \o <<13, 10, 13, 10>>
        /\ IsPrefixOf(MethodTokens[arg.method] \o <<32>>, ret.value)
        /\ IsSuffixOf(<<13, 10, 13, 10>>, ret.value)

\* DELETE with headers and a body, in 512 bytes
C22_Witness ==
    /\ Called("build_http_request")
    /\ arg.method = "Delete" /\ arg.headers = Some(<<65, 58, 98, 13, 10>>)
    /\ arg.body = Some(<<120>>) /\ arg.target = <<47, 97>>
    /\ ret.tag = "Ok"
    /\ Len(ret.value) = 41

\* C23: url_encode_component and build_http_request return an error
\* whenever the whole text is longer than the capacity N, and on success
\* the whole text, of length at most N; never a part of it.
WholeText(a) ==
    IF a.fn = "url_encode_component"
    THEN utf8_percent_encode(a.component, QUERY_ENCODE_SET)
    ELSE RequestHead(a)
             \o (IF a.body.tag = "Some" THEN <<13, 10>> \o a.body.value ELSE <<>>)
             \o <<13, 10, 13, 10>>

C23_NeverTruncated ==
    (Called("url_encode_component") \/ Called("build_http_request")) =>
        /\ Len(WholeText(arg)) > arg.N => ret.tag = "Err"
        /\ Len(WholeText(arg)) <= arg.N => ret.tag = "Ok"
        /\ ret.tag = "Ok" => ret.value = WholeText(arg) /\ Len(ret.value) <= arg.N
        /\ ret.tag = "Err" =>
              ret.error = (IF arg.fn = "url_encode_component" THEN "Other"
                           ELSE "HttpRequestFailed")

\* a request one byte longer than the capacity
C23_Witness ==
    /\ Called("build_http_request")
    /\ Len(WholeText(arg)) = arg.N + 1
    /\ arg.N > 0
    /\ ret.tag = "Err"

\* C29: when the request cannot be built, fetch_weather_data_with returns
\* the construction error before any network activity: no phase of the
\* fetch (DNS query, connect, send) was begun.
C29_RequestBuiltFirst ==
    (mainPc = "fetched" /\ Requests[arg].tag = "Err") =>
        /\ fetchResult = "HttpRequestFailed"
        /\ phases = <<>>

\* C25: every iteration of the connection task's loop reaches a suspension
\* point before the next one begins: an iteration that did not wait for the
\* disconnect event (line 15 false) never returns from the is_started()
\* test to the top of the loop.
C25_IterationSuspends == [][connPc = "check_started" => connPc' # "loop_top"]_vars

\* C24: whenever the station is not connected the connection task
\* eventually issues a new connect attempt (connect_async), as long as the
\* device is awake.
C24_Reattempts ==
    (Alive /\ staState # "Connected") ~> (connPc = "connect_async" \/ ~Alive)

\* the temperature texts drawn, and the temperature each one shows: today's
\* low and high, and min and max of the future day drawn at that height
TempTexts(done) ==
    {k \in 1..Len(done) :
        done[k].op = "text" /\ done[k].what \in {"low", "high", "min", "max"}}

TempShown(weather_data, o) ==
    LET daily == weather_data.daily
        i == IF o.step = "high_low" THEN 0 ELSE ((o.at.y - 20) \div 18) + 1
    IN  IF o.what \in {"low", "min"} THEN daily.temperature_2m_min[i + 1]
        ELSE daily.temperature_2m_max[i + 1]

\* the integer part of a value in tenths, and the nearest integer to its
\* magnitude, the even one of two equally near
Truncated(t) == IF t < 0 THEN 0 - (Abs(t) \div 10) ELSE t \div 10

NearestEven(a) ==
    LET cand == {a \div 10, (a \div 10) + 1}
        best == {n \in cand : \A k \in cand : Abs((10 * n) - a) <= Abs((10 * k) - a)}
    IN  CHOOSE n \in best : Cardinality(best) = 1 \/ n % 2 = 0

UnitChar(weather_data) ==
    LET unit == weather_data.daily_units.temperature_2m_max
    IN  unit[Len(unit)]

\* C26: each temperature drawn is the temperature truncated to integer
\* degrees (72.6 as 72, -3.7 as -3), without a decimal point, followed by
\* the last character of the temperature unit label.
C26_Truncated ==
    Called("graphical_display") =>
        \A k \in TempTexts(ret.done) :
            ret.done[k].text =
                IntText(Truncated(TempShown(arg.weather_data, ret.done[k])))
                    \o <<UnitChar(arg.weather_data)>>

\* C26: each temperature drawn is the temperature rounded to the nearest
\* integer, a tie to the even one, with the minus sign of a negative
\* temperature kept, without a decimal point, followed by the last character
\* of the temperature unit label.
C26_Rounded ==
    Called("graphical_display") =>
        \A k \in TempTexts(ret.done) :
            LET temp == TempShown(arg.weather_data, ret.done[k])
            IN  ret.done[k].text =
                    (IF temp < 0 THEN <<"-">> ELSE <<>>) \o NatText(NearestEven(Abs(temp)))
                        \o <<UnitChar(arg.weather_data)>>

\* 72.5 and -3.7 today, drawn as 72F and -4F; 73.5 and -0.5 tomorrow, drawn
\* as 74F and -0F
C26_Witness ==
    /\ Called("graphical_display")
    /\ ret.result = "Ok"
    /\ arg.weather_data.daily.temperature_2m_max[1] = 725
    /\ arg.weather_data.daily.temperature_2m_min[1] = -37
    /\ arg.weather_data.daily.temperature_2m_max[2] = 735
    /\ arg.weather_data.daily.temperature_2m_min[2] = -5
    /\ LET today == StepOps(ret.done, "high_low")
           strip == StepOps(ret.done, "future_days")
       IN  /\ today[1].text = <<"-", "4", "F">>
           /\ today[2].text = <<"7", "2", "F">>
           /\ strip[3].text = <<"-", "0", "F">>
           /\ strip[4].text = <<"7", "4", "F">>

\* the operation at which a render that panicked stopped
PanicOp == RenderPlan(arg.weather_data)[Len(ret.done) + 1]

\* C27: render reads the daily sequences and the unit label only at valid
\* indices, for every forecast the decoder gives, so it never aborts on a
\* missing first element, an index past the end or an empty unit label.
C27_ValidIndices ==
    (Called("graphical_display") /\ ret.result = "panic") =>
        PanicOp.what \notin {"first", "temp_unit", "icon", "min", "max"}

\* C28: no text assembly of render panics when the text is longer than its
\* String<N>: render returns an error value.
C28_OverflowIsError ==
    (Called("graphical_display") /\ ret.result = "panic") => PanicOp.what # "write"

====
